---- MODULE Spec2Model ----
(***************************************************************************)
(* ARIA agent: the orchestration state machine (AriaAgent.run and its      *)
(* phases), the risk engine (RiskEngine), the tool executor                *)
(* (ToolExecutor.executeTool) and the audit ledger (AuditLogger).          *)
(*                                                                         *)
(* Money is counted in thousandths of a dollar (priceUSD 0.01 is 10), time *)
(* in milliseconds.  Absent optional values are "" (strings), 0 or -1      *)
(* (numbers, as noted) and <<>> (objects, held in a sequence of length <=1)*)
(***************************************************************************)
EXTENDS Integers, Sequences, FiniteSets, TLC

\* ------------------------------------------------------------------------
\* Bounds of the model
\* ------------------------------------------------------------------------

\* longest plan the reasoning capability returns
MaxPlan == 2

\* longest latency of an awaited call or of a late timer, in units of PauseMs
MaxDelay == 1

\* most actions recorded in the action log of a RiskEngine used directly
MaxActions == 2

\* most entries logged in an AuditLogger used directly
MaxEntries == 3

\* most articles the news source returns
MaxNews == 1

\* most clock advances, of PauseMs each, while a RiskEngine is used directly
MaxTicks == 2

\* most entries in the research results handed to the reasoning fallback
MaxResults == 3

\* mandates the merchant server stores
MaxMandates == 2

\* ------------------------------------------------------------------------
\* Program constants
\* ------------------------------------------------------------------------

\* setTimeout(r, 500) between two Execute entries
PauseMs == 500

\* plan.estimatedCostUSD || 0.5 in phaseAuthorize
DefaultEstimateUSD == 500

\* maxValueUSD || 1 in POST /api/v1/mandates
DefaultMaxValueUSD == 1000

\* const CACHE_TTL_MS = 60_000
CACHE_TTL_MS == 60000

\* the merchant catalog served by GET /api/v1/tools
TOOLS ==
  << [id |-> "market-data",         priceUSD |-> 10,  category |-> "market-data"],
     [id |-> "sentiment",           priceUSD |-> 50,  category |-> "sentiment"],
     [id |-> "route-optimizer",     priceUSD |-> 20,  category |-> "routing"],
     [id |-> "trade-execute",       priceUSD |-> 100, category |-> "execution"],
     [id |-> "portfolio-analytics", priceUSD |-> 30,  category |-> "analytics"],
     [id |-> "web-search",          priceUSD |-> 20,  category |-> "market-data"] >>

DEFAULT_POLICY ==
  [ dailyLimitUSD           |-> 50000,
    perTransactionLimitUSD  |-> 5000,
    maxAutoApproveUSD       |-> 1000,
    allowedTokens           |-> {"USDC", "ETH", "WETH", "AERO", "cbETH"},
    allowedChains           |-> {"base", "base-sepolia", "ethereum", "arbitrum", "skale-nebula"},
    maxSlippageBps          |-> 100,
    requireApprovalAboveUSD |-> 5000,
    allowedCategories       |-> {"market-data", "sentiment", "routing", "execution", "analytics"},
    cooldownMs              |-> 1000 ]

\* ------------------------------------------------------------------------
\* Inputs
\* ------------------------------------------------------------------------

\* opts.riskPolicy of the AriaAgent constructor: { ...DEFAULT_POLICY, ...policy }
RiskPolicyOpts ==
  [ DEFAULT_POLICY EXCEPT
      !.dailyLimitUSD           = 120,
      !.perTransactionLimitUSD  = 100,
      !.maxAutoApproveUSD       = 10,
      !.requireApprovalAboveUSD = 50,
      !.allowedCategories       = {"market-data", "sentiment", "routing", "execution"} ]

\* budgetUSD passed to run() (1.0 is the default)
Budgets == {20, 1000}

\* tool ids the reasoning capability may name in a plan
PlanToolIds == {"market-data", "portfolio-analytics", "no-such-tool"}

\* tool ids the reasoning capability may name as follow-up action
ActionToolIds == {"trade-execute", "no-such-tool"}

\* estimatedCostUSD of a plan response (0: absent or zero)
PlanEstimates == {0, 10}

DelaysMs == {d * PauseMs : d \in 0..MaxDelay}

RECURSIVE SeqsUpTo(_, _)
SeqsUpTo(S, n) ==
  IF n = 0 THEN {<<>>}
  ELSE LET shorter == SeqsUpTo(S, n - 1)
       IN  shorter \cup {Append(s, x) : s \in {q \in shorter : Len(q) = n - 1}, x \in S}

\* ------------------------------------------------------------------------
\* AuditLogger
\* ------------------------------------------------------------------------

NewLogger == [entries |-> <<>>, receipts |-> <<>>, riskAssessments |-> <<>>, mandates |-> <<>>]

\* a log that keeps the latest entries only
logRotating(L, level, category, message, ref) ==
  LET e == [level |-> level, category |-> category, message |-> message, ref |-> ref]
  IN  [L EXCEPT !.entries = IF Len(@) >= 2 THEN Append(Tail(@), e) ELSE Append(@, e)]

\* log(level, category, message): message is the template, ref its variable part
log(L, level, category, message, ref) ==
  [L EXCEPT !.entries = Append(@, [level |-> level, category |-> category,
                                   message |-> message, ref |-> ref])]

info(L, category, message, ref) == log(L, "info", category, message, ref)

warn(L, category, message, ref) == log(L, "warn", category, message, ref)

error(L, category, message, ref) == log(L, "error", category, message, ref)

logPayment(L, receipt) ==
  info([L EXCEPT !.receipts = Append(@, receipt)], "payment", "receipt", receipt.tool)

\* logRiskAssessment that prints the assessment without storing it
logRiskAssessmentUnstored(L, assessment) ==
  info(L, "risk", IF assessment.approved THEN "approved" ELSE "blocked", assessment.action)

logRiskAssessment(L, assessment) ==
  info([L EXCEPT !.riskAssessments = Append(@, assessment)], "risk",
       IF assessment.approved THEN "approved" ELSE "blocked", assessment.action)

\* mandate.cartMandate.maxValue is read after the push: an object without
\* cartMandate is stored and then raises a TypeError (no entry is logged)
logMandate(L, mandate) ==
  LET pushed == [L EXCEPT !.mandates = Append(@, mandate)]
  IN  IF mandate.hasCart THEN info(pushed, "ap2", "mandate", mandate.status) ELSE pushed

logWorkflowStep(L, step) == info(L, "workflow", step.status, step.id)

RECURSIVE SumAmountUSD(_)
SumAmountUSD(rs) ==
  IF rs = <<>> THEN 0 ELSE rs[1].amountUSD + SumAmountUSD(Tail(rs))

\* receipts.reduce((acc, r) => { acc[r[key]] = (acc[r[key]] || 0) + r.amountUSD }, {})
RECURSIVE SpendBy(_, _, _)
SpendBy(rs, key, acc) ==
  IF rs = <<>> THEN acc
  ELSE LET r == rs[1]
           k == r[key]
           sum == (IF k \in DOMAIN acc THEN acc[k] ELSE 0) + r.amountUSD
       IN  SpendBy(Tail(rs), key, [x \in DOMAIN acc \cup {k} |-> IF x = k THEN sum ELSE acc[x]])

\* a report whose aggregates were stored before the latest receipt came in
getFullReportStale(L) ==
  LET old == IF L.receipts = <<>> THEN <<>> ELSE SubSeq(L.receipts, 1, Len(L.receipts) - 1)
  IN  [ summary  |-> [ totalPayments   |-> Len(old),
                       totalSpentUSD   |-> SumAmountUSD(old),
                       spendByProtocol |-> SpendBy(old, "protocol", <<>>),
                       spendByTool     |-> SpendBy(old, "tool", <<>>),
                       riskAssessments |-> Len(L.riskAssessments),
                       mandatesCreated |-> Len(L.mandates),
                       logEntries      |-> Len(L.entries) ],
        receipts |-> L.receipts ]

getFullReport(L) ==
  [ summary  |-> [ totalPayments   |-> Len(L.receipts),
                   totalSpentUSD   |-> SumAmountUSD(L.receipts),
                   spendByProtocol |-> SpendBy(L.receipts, "protocol", <<>>),
                   spendByTool     |-> SpendBy(L.receipts, "tool", <<>>),
                   riskAssessments |-> Len(L.riskAssessments),
                   mandatesCreated |-> Len(L.mandates),
                   logEntries      |-> Len(L.entries) ],
    receipts |-> L.receipts ]

\* ------------------------------------------------------------------------
\* RiskEngine
\* ------------------------------------------------------------------------

NewRiskEngine(policy) ==
  [policy |-> policy, dailySpent |-> 0, lastActionTimestamp |-> 0, actionLog |-> <<>>]

NoMetadata == [category |-> "", token |-> "", chain |-> "", slippageBps |-> 0]

\* the action string `tool:${toolId}`
ToolAction(toolId) == toolId

\* a tier that ignores the cost
costTierFlat(p, estimatedCostUSD) == "low"

\* the tier of an action on which no check raised it above low (lines 839-843)
costTier(p, estimatedCostUSD) ==
  IF estimatedCostUSD > p.requireApprovalAboveUSD THEN "high"
  ELSE IF estimatedCostUSD > p.maxAutoApproveUSD THEN "medium"
  ELSE "low"

\* an approved output that is true for auto-approved actions only
allowedAutoOnly(approved, needsApproval) == approved

\* the approved output: approved || needsApproval (line 858)
allowed(approved, needsApproval) == approved \/ needsApproval

assess(re, t, action, estimatedCostUSD, metadata) ==
  LET p  == re.policy
      overDaily == re.dailySpent + estimatedCostUSD > p.dailyLimitUSD
      v1 == IF overDaily THEN <<"Daily limit exceeded">> ELSE <<>>
      r1 == IF overDaily THEN "critical" ELSE "low"
      overTx == estimatedCostUSD > p.perTransactionLimitUSD
      v2 == IF overTx THEN Append(v1, "Per-transaction limit exceeded") ELSE v1
      r2 == IF overTx THEN "high" ELSE r1
      timeSinceLastAction == t - re.lastActionTimestamp
      cooling == timeSinceLastAction < p.cooldownMs /\ re.lastActionTimestamp > 0
      v3 == IF cooling THEN Append(v2, "Cooldown not met") ELSE v2
      badCategory == metadata.category # "" /\ metadata.category \notin p.allowedCategories
      v4 == IF badCategory THEN Append(v3, "Category not allowed") ELSE v3
      r4 == IF badCategory THEN "high" ELSE r2
      badToken == metadata.token # "" /\ metadata.token \notin p.allowedTokens
      v5 == IF badToken THEN Append(v4, "Token not allowed") ELSE v4
      r5 == IF badToken THEN "high" ELSE r4
      badChain == metadata.chain # "" /\ metadata.chain \notin p.allowedChains
      v6 == IF badChain THEN Append(v5, "Chain not allowed") ELSE v5
      r6 == IF badChain THEN "high" ELSE r5
      badSlippage == metadata.slippageBps # 0 /\ metadata.slippageBps > p.maxSlippageBps
      violations == IF badSlippage THEN Append(v6, "Slippage too high") ELSE v6
      r7 == IF badSlippage /\ r6 = "low" THEN "medium" ELSE r6
      riskLevel == IF r7 = "low" THEN costTier(p, estimatedCostUSD) ELSE r7
      approved == Len(violations) = 0 /\ estimatedCostUSD <= p.maxAutoApproveUSD
      needsApproval == Len(violations) = 0 /\ estimatedCostUSD > p.maxAutoApproveUSD
      reason == IF Len(violations) > 0 THEN "Blocked"
                ELSE IF approved THEN "Auto-approved" ELSE "Requires approval"
  IN  [ action           |-> action,
        estimatedCostUSD |-> estimatedCostUSD,
        riskLevel        |-> riskLevel,
        approved         |-> allowed(approved, needsApproval),
        reason           |-> reason,
        policyViolations |-> violations,
        budgetImpact     |-> [ before      |-> re.dailySpent,
                               after       |-> re.dailySpent + estimatedCostUSD,
                               percentUsed |-> ((re.dailySpent + estimatedCostUSD) * 100)
                                                 \div p.dailyLimitUSD ] ]

\* a recordAction that books the cost whatever the approved flag
recordActionAlways(re, t, action, costUSD, approved) ==
  [re EXCEPT !.dailySpent = @ + costUSD, !.lastActionTimestamp = t,
             !.actionLog = Append(@, [timestamp |-> t, action |-> action,
                                      costUSD |-> costUSD, approved |-> approved])]

recordAction(re, t, action, costUSD, approved) ==
  LET spent == IF approved
               THEN [re EXCEPT !.dailySpent = @ + costUSD, !.lastActionTimestamp = t]
               ELSE re
  IN  [spent EXCEPT !.actionLog = Append(@, [timestamp |-> t, action |-> action,
                                             costUSD |-> costUSD, approved |-> approved])]

\* a budget status whose remaining amount never goes below zero
getBudgetStatusClamped(re) ==
  [ dailyLimit  |-> re.policy.dailyLimitUSD,
    spent       |-> re.dailySpent,
    remaining   |-> IF re.dailySpent > re.policy.dailyLimitUSD THEN 0
                    ELSE re.policy.dailyLimitUSD - re.dailySpent,
    actionCount |-> Len(re.actionLog) ]

getBudgetStatus(re) ==
  [ dailyLimit  |-> re.policy.dailyLimitUSD,
    spent       |-> re.dailySpent,
    remaining   |-> re.policy.dailyLimitUSD - re.dailySpent,
    actionCount |-> Len(re.actionLog) ]

\* ------------------------------------------------------------------------
\* ToolExecutor helpers
\* ------------------------------------------------------------------------

\* this.toolRegistry.find((t) => t.id === toolId): <<tool>> or <<>>
FindTool(registry, toolId) ==
  LET hits == {k \in 1..Len(registry) : registry[k].id = toolId}
  IN  IF hits = {} THEN <<>>
      ELSE <<registry[CHOOSE k \in hits : \A j \in hits : k <= j]>>

RECURSIVE estimateWorkflowCost(_, _)
estimateWorkflowCost(registry, toolIds) ==
  IF toolIds = <<>> THEN 0
  ELSE LET tool == FindTool(registry, toolIds[1])
       IN  (IF tool = <<>> THEN 0 ELSE tool[1].priceUSD)
             + estimateWorkflowCost(registry, Tail(toolIds))

\* ------------------------------------------------------------------------
\* State
\* ------------------------------------------------------------------------

VARIABLES
  riskEngine,     \* RiskEngine fields
  logger,         \* AuditLogger fields
  toolRegistry,   \* ToolExecutor.toolRegistry
  wallet,         \* ToolExecutor.walletReady: "pending", "ready" or "none" (init failed)
  currentRun,     \* AriaAgent.currentRun
  plan,           \* run(): const plan
  mandate,        \* run(): const mandate, <<>> for null
  decision,       \* run(): const decision
  i,              \* phaseExecute: loop index (0-based)
  call,           \* executeTool: toolId and protocolHint of the invocation in flight
  gatewayCalls,   \* requests that reached wallet.fetch / fallbackFetch
  pc,             \* position of run()
  now,            \* Date.now()
  returned,       \* outcome of the run() promise: "none", "value" or "rejected"
  ret,            \* last call made on the RiskEngine, AuditLogger or provider interface
                  \* and its value
  cache,          \* providers/sentiment.ts: const cache (key -> { data, expiresAt })
  mandates,       \* merchant server: const mandates, a mandate's id is its index
  fulfillments,   \* requests the agent posted to /api/v1/mandates/:id/fulfill
  other,          \* the locals of a second run() invocation of the same agent, the
                  \* one that is not being followed
  firstRun        \* the WorkflowRun that this.currentRun referenced before run()
                  \* assigned a new one; its caller may still hold it

vars == << riskEngine, logger, toolRegistry, wallet, currentRun, plan, mandate,
           decision, i, call, gatewayCalls, pc, now, returned, ret, cache,
           mandates, fulfillments, other, firstRun >>

\* no interface call was made yet
NoRet == [op |-> "none", args |-> <<>>, value |-> <<>>]

\* currentRun = null
NoRun ==
  [ status |-> "none", steps |-> <<>>, totalCostUSD |-> 0, budgetUSD |-> 0,
    budgetRemainingUSD |-> 0, startedAt |-> 0, completedAt |-> 0, result |-> <<>> ]

NoPlan == [plan |-> <<>>, estimatedCostUSD |-> 0]

NoDecision == [decision |-> "", action |-> <<>>]

NoCall == [toolId |-> "", protocolHint |-> ""]

\* no second invocation of run()
NoInvocation ==
  [ inv |-> 0, pc |-> "none", plan |-> NoPlan, mandate |-> <<>>, decision |-> NoDecision,
    i |-> 0, call |-> NoCall, returned |-> "none" ]

\* a WorkflowStep; tool, protocol, error are "" and costUSD is 0 when absent
Step(id, type, tool, protocol, costUSD, status, err) ==
  [ id |-> id, type |-> type, tool |-> tool, protocol |-> protocol,
    costUSD |-> costUSD, status |-> status, error |-> err ]

\* steps.unshift(step) instead of steps.push(step)
pushStepFront(run, step) == [run EXCEPT !.steps = <<step>> \o @]

\* this.currentRun.steps.push(step)
pushStep(run, step) == [run EXCEPT !.steps = Append(@, step)]

\* a catch block that marks the run failed without stamping completedAt
runCatchUnstamped(run, t) == [run EXCEPT !.status = "failed"]

\* the catch block of run()
runCatch(run, t) == [run EXCEPT !.status = "failed", !.completedAt = t]

Init ==
  /\ riskEngine = NewRiskEngine(RiskPolicyOpts)
  /\ logger = NewLogger
  /\ toolRegistry = <<>>
  /\ wallet = "pending"
  /\ currentRun = NoRun
  /\ plan = NoPlan
  /\ mandate = <<>>
  /\ decision = NoDecision
  /\ i = 0
  /\ call = NoCall
  /\ gatewayCalls = <<>>
  /\ pc = "idle"
  /\ now = 1
  /\ returned = "none"
  /\ ret = NoRet
  /\ cache = <<>>
  /\ mandates = <<>>
  /\ fulfillments = <<>>
  /\ other = NoInvocation
  /\ firstRun = NoRun

\* an error escaped a phase: run() logs it, marks the run failed and returns it
Failed(L, run, t, message) ==
  /\ currentRun' = runCatch(run, t)
  /\ logger' = error(L, "agent", "Workflow failed", message)
  /\ pc' = "done"
  /\ returned' = "value"

\* initWallet() settles: the .then / .catch callback of the constructor.  It
\* settles before run() is called or while executeTool awaits walletReady; where
\* its log entry falls among the entries of the earlier phases is not modelled.
initWallet ==
  /\ wallet = "pending"
  /\ pc \in {"idle", "execGateway", "actGateway"}
  /\ \E ok \in BOOLEAN :
       /\ wallet' = IF ok THEN "ready" ELSE "none"
       /\ logger' = IF ok THEN info(logger, "wallet", "AgentWallet initialized", "")
                         ELSE warn(logger, "wallet", "AgentWallet init failed", "")
  /\ UNCHANGED << ret, cache, mandates, fulfillments, other, firstRun >>
  /\ UNCHANGED << riskEngine, toolRegistry, currentRun, plan, mandate, decision, i,
                  call, gatewayCalls, pc, now, returned >>

\* run(objective, budgetUSD) up to the try block
run ==
  /\ pc = "idle"
  /\ \E budgetUSD \in Budgets :
       currentRun' = [ status |-> "running", steps |-> <<>>, totalCostUSD |-> 0,
                       budgetUSD |-> budgetUSD, budgetRemainingUSD |-> budgetUSD,
                       startedAt |-> now, completedAt |-> 0, result |-> <<>> ]
  /\ logger' = info(info(info(info(logger, "agent", "rule", ""),
                 "agent", "ARIA Workflow Started", ""), "agent", "Budget", ""),
                 "agent", "rule", "")
  /\ firstRun' = currentRun
  /\ pc' = "discover"
  /\ UNCHANGED << ret, cache, mandates, fulfillments, other >>
  /\ UNCHANGED << riskEngine, toolRegistry, wallet, plan, mandate, decision, i, call,
                  gatewayCalls, now, returned >>

\* phaseDiscover with discoverTools: the catalog fetch answers or throws
phaseDiscover ==
  /\ pc = "discover"
  /\ LET L1 == info(info(logger, "phase", "Phase 1", ""), "discovery", "Discovering tools", "")
     IN \E ok \in BOOLEAN :
          IF ok
          THEN LET step == Step("discover", "discover", "", "", 0, "success", "")
               IN /\ toolRegistry' = TOOLS
                  /\ currentRun' = pushStep(currentRun, step)
                  /\ logger' = logWorkflowStep(info(L1, "discovery", "Found tools", ""), step)
                  /\ pc' = "plan"
                  /\ UNCHANGED returned
          ELSE /\ Failed(L1, currentRun, now, "fetch failed")
               /\ UNCHANGED toolRegistry
  /\ UNCHANGED << ret, cache, mandates, fulfillments, other, firstRun >>
  /\ UNCHANGED << riskEngine, wallet, plan, mandate, decision, i, call, gatewayCalls, now >>

\* responses of the reasoning capability to the planning prompt, as phasePlan
\* sees them: callLLM throws; JSON.parse throws (plan wrapped as raw text);
\* JSON null (plan.estimatedCostUSD raises); a JSON object whose plan is not a
\* list ((plan.plan || []).map raises); any other JSON value without a plan
\* field; an object with a plan list
PlanResponses ==
  { [kind |-> k, plan |-> <<>>, estimatedCostUSD |-> 0] :
      k \in {"llmError", "nonjson", "jsonNull", "planNotList", "jsonOther"} }
  \cup
  { [kind |-> "json", plan |-> tools, estimatedCostUSD |-> est] :
      tools \in SeqsUpTo(PlanToolIds, MaxPlan), est \in PlanEstimates }

phasePlan ==
  /\ pc = "plan"
  /\ LET L1 == info(logger, "phase", "Phase 2", "")
     IN \E r \in PlanResponses :
          IF r.kind \in {"llmError", "jsonNull", "planNotList"}
          THEN /\ Failed(L1, currentRun, now, r.kind)
               /\ UNCHANGED plan
          ELSE LET parsed == [ plan |-> r.plan, estimatedCostUSD |-> r.estimatedCostUSD ]
                   estimatedCost == IF parsed.estimatedCostUSD # 0
                                    THEN parsed.estimatedCostUSD
                                    ELSE estimateWorkflowCost(toolRegistry, parsed.plan)
                   step == Step("plan", "reason", "", "", 0, "success", "")
               IN /\ plan' = parsed
                  /\ currentRun' = pushStep(currentRun, step)
                  /\ logger' = logWorkflowStep(info(L1, "plan", "Planned", ""), step)
                  /\ pc' = "authorize"
                  /\ UNCHANGED returned
  /\ UNCHANGED << ret, cache, mandates, fulfillments, other, firstRun >>
  /\ UNCHANGED << riskEngine, toolRegistry, wallet, mandate, decision, i, call,
                  gatewayCalls, now >>

\* POST /api/v1/mandates on the merchant server
merchantCreateMandate(mandateId, maxValueUSD) ==
  [ mandateId |-> mandateId, status |-> "pending", hasCart |-> TRUE,
    maxValue  |-> IF maxValueUSD # 0 THEN maxValueUSD ELSE DefaultMaxValueUSD ]

\* POST /api/v1/mandates/:id/authorize on the merchant server
merchantAuthorize(m) == [m EXCEPT !.status = "authorized"]

\* a response body that is not a mandate (an error object)
NotAMandate == [mandateId |-> 0, status |-> "", hasCart |-> FALSE, maxValue |-> 0]

\* what the mandate endpoint does: both requests answer; the creation request
\* fails; the creation answers with an unusable body; the authorization request
\* fails or answers with an unusable body
AuthorizeOutcomes == {"ok", "networkError", "badResponse", "authorizeError"}

phaseAuthorize ==
  /\ pc = "authorize"
  /\ LET L1 == info(logger, "phase", "Phase 3", "")
         estimatedCost == IF plan.estimatedCostUSD # 0 THEN plan.estimatedCostUSD
                          ELSE DefaultEstimateUSD
         created == merchantCreateMandate(Len(logger.mandates) + 1, (estimatedCost * 3) \div 2)
         failedStep == Step("authorize", "authorize", "", "", 0, "failed", "mandate failed")
         okStep == Step("authorize", "authorize", "", "", 0, "success", "")
     IN \E o \in AuthorizeOutcomes :
          LET L2 == CASE o = "ok" -> logMandate(L1, created)
                      [] o = "networkError" -> L1
                      [] o = "badResponse" -> logMandate(L1, NotAMandate)
                      [] o = "authorizeError" -> logMandate(L1, created)
          IN IF o = "ok"
             THEN /\ mandate' = << merchantAuthorize(created) >>
                  /\ currentRun' = pushStep(currentRun, okStep)
                  /\ logger' = logWorkflowStep(info(L2, "ap2", "Mandate authorized", ""), okStep)
             ELSE /\ mandate' = <<>>
                  /\ currentRun' = pushStep(currentRun, failedStep)
                  /\ logger' = logWorkflowStep(warn(L2, "ap2", "Mandate creation failed", o),
                                               failedStep)
  /\ i' = 0
  /\ pc' = "execute"
  /\ UNCHANGED << ret, cache, mandates, fulfillments, other, firstRun >>
  /\ UNCHANGED << riskEngine, toolRegistry, wallet, plan, decision, call, gatewayCalls,
                  now, returned >>

\* ------------------------------------------------------------------------
\* ToolExecutor.executeTool
\* ------------------------------------------------------------------------

\* executeTool without the early return on a rejected assessment
executeToolAssessNoGate(L, re, registry, t, toolId, protocolHint) ==
  LET found == FindTool(registry, toolId)
  IN  IF found = <<>>
      THEN [outcome |-> "throw", logger |-> L, step |-> Step("", "", "", "", 0, "", "")]
      ELSE LET tool == found[1]
               assessment == assess(re, t, ToolAction(toolId), tool.priceUSD,
                                    [NoMetadata EXCEPT !.category = tool.category])
               L1 == logRiskAssessment(L, assessment)
               step == Step("uuid", "pay", toolId, protocolHint, tool.priceUSD, "failed",
                            "Risk policy violation")
           IN  [outcome |-> "approved", logger |-> info(L1, "tool", "Calling", toolId),
                step |-> step]

\* executeTool up to `await this.walletReady`: the registry lookup, the risk
\* assessment and, on a rejection, the failed step.  outcome is "throw" (tool
\* not found), "rejected" or "approved"
executeToolAssess(L, re, registry, t, toolId, protocolHint) ==
  LET found == FindTool(registry, toolId)
  IN  IF found = <<>>
      THEN [outcome |-> "throw", logger |-> L, step |-> Step("", "", "", "", 0, "", "")]
      ELSE LET tool == found[1]
               assessment == assess(re, t, ToolAction(toolId), tool.priceUSD,
                                    [NoMetadata EXCEPT !.category = tool.category])
               L1 == logRiskAssessment(L, assessment)
               step == Step("uuid", "pay", toolId, protocolHint, tool.priceUSD, "failed",
                            "Risk policy violation")
           IN  IF ~assessment.approved
               THEN [outcome |-> "rejected", logger |-> logWorkflowStep(L1, step), step |-> step]
               ELSE [outcome |-> "approved", logger |-> info(L1, "tool", "Calling", toolId),
                     step |-> step]

\* what wallet.fetch / fallbackFetch does with one request: ok is response.ok
\* (FALSE also stands for a thrown error); estimate is the amount handed to
\* onBeforePayment, -1 when no payment was requested; settlement is what
\* onAfterPayment receives, "none" when it is not called.  An estimate above the
\* per-transaction limit is declined by onBeforePayment and the call fails; an
\* accepted estimate is the list price or any amount up to that limit.
GatewayOutcomes(tool, policy, walletState) ==
  IF walletState = "none"
  THEN { [ok |-> b, estimate |-> -1, settlement |-> "none"] : b \in BOOLEAN }
  ELSE { [ok |-> b, estimate |-> -1, settlement |-> "none"] : b \in BOOLEAN }
       \cup { [ok |-> FALSE, estimate |-> policy.perTransactionLimitUSD + 10,
               settlement |-> "none"] }
       \cup { [ok |-> TRUE, estimate |-> e, settlement |-> "success"] :
                e \in {tool.priceUSD, policy.perTransactionLimitUSD} }
       \cup { [ok |-> TRUE, estimate |-> tool.priceUSD, settlement |-> "failed"] }

\* executeTool from the gateway call to its return
executeToolFetch(L, re, registry, t, c, walletState, o) ==
  LET tool == FindTool(registry, c.toolId)[1]
      L1 == IF walletState = "none" THEN warn(L, "wallet", "Using plain fetch", "") ELSE L
      paying == o.estimate # -1
      detectedProtocol == IF paying THEN "x402" ELSE c.protocolHint
      L2 == IF paying
            THEN info(info(L1, "protocol", "Detected", "x402"), "payment", "Cost estimate", c.toolId)
            ELSE L1
      L3 == IF o.settlement # "none" THEN info(L2, "payment", "Settlement", o.settlement) ELSE L2
  IN  IF ~o.ok
      THEN LET step == Step("uuid", "execute", c.toolId, detectedProtocol, 0, "failed",
                            "Tool call failed")
           IN  [ riskEngine |-> re,
                 logger |-> error(logWorkflowStep(L3, step), "tool", "Tool failed", c.toolId),
                 step |-> step ]
      ELSE LET actualCostUSD == IF paying THEN o.estimate ELSE tool.priceUSD
               receipt == [ timestamp |-> t, protocol |-> detectedProtocol, tool |-> c.toolId,
                            amountUSD |-> actualCostUSD,
                            status |-> IF o.settlement # "failed" THEN "settled" ELSE "failed" ]
               step == Step("uuid", "execute", c.toolId, detectedProtocol, actualCostUSD,
                            "success", "")
           IN  [ riskEngine |-> recordAction(re, t, ToolAction(c.toolId), actualCostUSD, TRUE),
                 logger |-> logWorkflowStep(logPayment(L3, receipt), step),
                 step |-> step ]

\* ------------------------------------------------------------------------
\* Phase 4: Execute
\* ------------------------------------------------------------------------

\* phaseExecute after executeTool returned: record the step and its cost
executeRecord(r, step) ==
  LET pushed == pushStep(r, step)
      total == pushed.totalCostUSD + step.costUSD
  IN  [pushed EXCEPT !.totalCostUSD = total, !.budgetRemainingUSD = r.budgetUSD - total]

\* one iteration of the loop of phaseExecute, up to the first suspension of
\* executeTool (or to its return, when the entry is rejected)
phaseExecute ==
  /\ pc = "execute"
  /\ LET steps == plan.plan
         L0 == IF i = 0 THEN info(logger, "phase", "Phase 4", "") ELSE logger
     IN IF i >= Len(steps)
        THEN /\ logger' = L0
             /\ pc' = "decide"
             /\ UNCHANGED << currentRun, i, call, returned >>
        ELSE LET planned == steps[i + 1]
                 protocol == IF mandate # <<>> THEN "ap2" ELSE "x402"
                 L1 == info(L0, "execute", "Step", planned)
                 a == executeToolAssess(L1, riskEngine, toolRegistry, now, planned, protocol)
             IN CASE a.outcome = "throw" ->
                       /\ Failed(a.logger, currentRun, now, "Tool not found")
                       /\ UNCHANGED << i, call >>
                  [] a.outcome = "rejected" ->
                       /\ currentRun' = executeRecord(currentRun, a.step)
                       /\ logger' = a.logger
                       /\ i' = i + 1
                       /\ pc' = IF i < Len(steps) - 1 THEN "pause" ELSE "decide"
                       /\ UNCHANGED << call, returned >>
                  [] a.outcome = "approved" ->
                       /\ logger' = a.logger
                       /\ call' = [toolId |-> planned, protocolHint |-> protocol]
                       /\ pc' = "execGateway"
                       /\ UNCHANGED << currentRun, i, returned >>
  /\ UNCHANGED << ret, cache, mandates, fulfillments, other, firstRun >>
  /\ UNCHANGED << riskEngine, toolRegistry, wallet, plan, mandate, decision,
                  gatewayCalls, now >>

\* the gateway call of an Execute entry answers; executeTool returns to the loop.
\* The latency of the call is not modelled: lastActionTimestamp is taken when it
\* answers, and the time to the next assessment is that of pause / phaseDecide.
executeGateway ==
  /\ pc = "execGateway"
  /\ wallet # "pending"
  /\ \E o \in GatewayOutcomes(FindTool(toolRegistry, call.toolId)[1], riskEngine.policy, wallet) :
       LET x == executeToolFetch(logger, riskEngine, toolRegistry, now, call, wallet, o)
       IN /\ UNCHANGED now
          /\ riskEngine' = x.riskEngine
          /\ logger' = x.logger
          /\ currentRun' = executeRecord(currentRun, x.step)
  /\ gatewayCalls' = Append(gatewayCalls, call)
  /\ call' = NoCall
  /\ i' = i + 1
  /\ pc' = IF i < Len(plan.plan) - 1 THEN "pause" ELSE "decide"
  /\ UNCHANGED << ret, cache, mandates, fulfillments, other, firstRun >>
  /\ UNCHANGED << toolRegistry, wallet, plan, mandate, decision, returned >>

\* await new Promise(r => setTimeout(r, 500)) between two entries
pause ==
  /\ pc = "pause"
  /\ \E d \in DelaysMs : now' = now + PauseMs + d
  /\ pc' = "execute"
  /\ UNCHANGED << ret, cache, mandates, fulfillments, other, firstRun >>
  /\ UNCHANGED << riskEngine, logger, toolRegistry, wallet, currentRun, plan, mandate,
                  decision, i, call, gatewayCalls, returned >>

\* ------------------------------------------------------------------------
\* Phase 5: Decide
\* ------------------------------------------------------------------------

\* responses of the reasoning capability to the decision prompt: callLLM
\* throws; JSON null (decision.decision raises); text that is not JSON (hold,
\* no action); a decision object, with or without a follow-up action
DecideResponses ==
  { [kind |-> k, decision |-> "", action |-> <<>>] : k \in {"llmError", "jsonNull"} }
  \cup { [kind |-> "nonjson", decision |-> "hold", action |-> <<>>] }
  \cup { [kind |-> "json", decision |-> "hold", action |-> <<>>] }
  \cup { [kind |-> "json", decision |-> "buy", action |-> << [tool |-> t] >>] :
           t \in ActionToolIds }

phaseDecide ==
  /\ pc = "decide"
  /\ \E d \in DelaysMs : \E r \in DecideResponses :
       LET L1 == info(logger, "phase", "Phase 5", "")
           t == now + d
       IN /\ now' = t
          /\ IF r.kind \in {"llmError", "jsonNull"}
             THEN /\ Failed(L1, currentRun, t, r.kind)
                  /\ UNCHANGED decision
             ELSE LET step == Step("decide", "reason", "", "", 0, "success", "")
                  IN /\ decision' = [decision |-> r.decision, action |-> r.action]
                     /\ currentRun' = pushStep(currentRun, step)
                     /\ logger' = logWorkflowStep(info(L1, "decide", "Decision", r.decision), step)
                     /\ pc' = IF r.action # <<>> THEN "act" ELSE "report"
                     /\ UNCHANGED returned
  /\ UNCHANGED << ret, cache, mandates, fulfillments, other, firstRun >>
  /\ UNCHANGED << riskEngine, toolRegistry, wallet, plan, mandate, i, call, gatewayCalls >>

\* ------------------------------------------------------------------------
\* Phase 6: Trade execution (the follow-up action)
\* ------------------------------------------------------------------------

\* phaseTradeExecute after executeTool returned
tradeRecord(r, step) ==
  LET pushed == pushStep(r, step)
  IN  [pushed EXCEPT !.totalCostUSD = @ + step.costUSD]

\* data?.txHash: the execution endpoint answers with the transaction
tradeLog(L, step) ==
  IF step.status = "success" /\ step.tool = "trade-execute"
  THEN info(L, "trade", "Trade executed", step.tool) ELSE L

phaseTradeExecute ==
  /\ pc = "act"
  /\ LET L0 == info(logger, "phase", "Phase 6", "")
         toolId == decision.action[1].tool
         a == executeToolAssess(L0, riskEngine, toolRegistry, now, toolId, "x402")
     IN CASE a.outcome = "throw" ->
               /\ Failed(a.logger, currentRun, now, "Tool not found")
               /\ UNCHANGED call
          [] a.outcome = "rejected" ->
               /\ currentRun' = tradeRecord(currentRun, a.step)
               /\ logger' = a.logger
               /\ pc' = "report"
               /\ UNCHANGED << call, returned >>
          [] a.outcome = "approved" ->
               /\ logger' = a.logger
               /\ call' = [toolId |-> toolId, protocolHint |-> "x402"]
               /\ pc' = "actGateway"
               /\ UNCHANGED << currentRun, returned >>
  /\ UNCHANGED << ret, cache, mandates, fulfillments, other, firstRun >>
  /\ UNCHANGED << riskEngine, toolRegistry, wallet, plan, mandate, decision, i,
                  gatewayCalls, now >>

\* the gateway call of the follow-up action answers
tradeGateway ==
  /\ pc = "actGateway"
  /\ wallet # "pending"
  /\ \E o \in GatewayOutcomes(FindTool(toolRegistry, call.toolId)[1], riskEngine.policy, wallet) :
       LET x == executeToolFetch(logger, riskEngine, toolRegistry, now, call, wallet, o)
       IN /\ UNCHANGED now
          /\ riskEngine' = x.riskEngine
          /\ logger' = tradeLog(x.logger, x.step)
          /\ currentRun' = tradeRecord(currentRun, x.step)
  /\ gatewayCalls' = Append(gatewayCalls, call)
  /\ call' = NoCall
  /\ pc' = "report"
  /\ UNCHANGED << ret, cache, mandates, fulfillments, other, firstRun >>
  /\ UNCHANGED << toolRegistry, wallet, plan, mandate, decision, i, returned >>

\* ------------------------------------------------------------------------
\* Phase 7: Report, and the finalization of run()
\* ------------------------------------------------------------------------

\* responses of the reasoning capability to the report prompt
ReportResponses == {"llmError", "jsonNull", "nonjson", "json"}

\* lines 333-338 of run(): the run is completed and its totals are taken from
\* the ledger
finalize(r, budgetUSD, t, result, L) ==
  LET total == SumAmountUSD(L.receipts)
  IN  [r EXCEPT !.status = "completed", !.completedAt = t, !.result = << result >>,
                !.totalCostUSD = total, !.budgetRemainingUSD = budgetUSD - total]

\* the budgetUSD parameter of the invocation that is followed: the budget of
\* the RunState it created, which is this.currentRun unless a later invocation
\* of run() has replaced it
budgetUSDOfInvocation ==
  IF other.inv = 2 /\ firstRun.status # "none" THEN firstRun.budgetUSD
  ELSE currentRun.budgetUSD

\* the closing log lines of a completed run
completedLog(L) ==
  info(info(info(info(L, "agent", "rule", ""), "agent", "ARIA Workflow Completed", ""),
            "agent", "Total Cost", ""), "agent", "rule", "")

\* phaseReport, then run() up to the fulfillment request or to its return
phaseReport ==
  /\ pc = "report"
  /\ LET L1 == info(logger, "phase", "Phase 7", "")
     IN \E r \in ReportResponses :
          IF r \in {"llmError", "jsonNull"}
          THEN Failed(L1, currentRun, now, r)
          ELSE LET auditReport == getFullReport(L1)
                   result == [ auditSummary |-> auditReport.summary,
                               receipts |-> auditReport.receipts ]
                   step == Step("report", "report", "", "", 0, "success", "")
                   L2 == logWorkflowStep(L1, step)
                   done == finalize(pushStep(currentRun, step), budgetUSDOfInvocation, now,
                                    result, L2)
               IN /\ currentRun' = done
                  /\ IF mandate # <<>>
                     THEN /\ logger' = L2
                          /\ pc' = "fulfill"
                          /\ UNCHANGED returned
                     ELSE /\ logger' = completedLog(L2)
                          /\ pc' = "done"
                          /\ returned' = "value"
  /\ UNCHANGED << ret, cache, mandates, fulfillments, other, firstRun >>
  /\ UNCHANGED << riskEngine, toolRegistry, wallet, plan, mandate, decision, i, call,
                  gatewayCalls, now >>

\* a fulfillment body that reports no spending
fulfillmentOfSteps(m, r, L) ==
  [ mandateId |-> m.mandateId, steps |-> r.steps, totalSpent |-> 0,
    receipts |-> L.receipts, status |-> r.status ]

\* the body of the fulfillment request (lines 713-720); status is that of the
\* run it is sent for
fulfillment(m, r, L) ==
  [ mandateId |-> m.mandateId, steps |-> r.steps, totalSpent |-> r.totalCostUSD,
    receipts |-> L.receipts, status |-> r.status ]

\* fulfillMandate: the request answers or throws; run() then returns
fulfillMandate ==
  /\ pc = "fulfill"
  /\ \E ok \in BOOLEAN :
       logger' = completedLog(IF ok THEN info(logger, "ap2", "Mandate fulfilled", "")
                              ELSE warn(logger, "ap2", "Mandate fulfillment failed", ""))
  /\ fulfillments' = Append(fulfillments, fulfillment(mandate[1], currentRun, logger))
  /\ pc' = "done"
  /\ returned' = "value"
  /\ UNCHANGED << ret, cache, mandates, other, firstRun >>
  /\ UNCHANGED << riskEngine, toolRegistry, wallet, currentRun, plan, mandate, decision,
                  i, call, gatewayCalls, now >>

Next ==
  \/ initWallet
  \/ run
  \/ phaseDiscover
  \/ phasePlan
  \/ phaseAuthorize
  \/ phaseExecute
  \/ executeGateway
  \/ pause
  \/ phaseDecide
  \/ phaseTradeExecute
  \/ tradeGateway
  \/ phaseReport
  \/ fulfillMandate

Spec == Init /\ [][Next]_vars

\* ------------------------------------------------------------------------
\* The agent constructed with an observer hook (opts.onEvent) that may throw
\* ------------------------------------------------------------------------

\* the first log line of the phase run() is about to enter
FirstLog ==
  [ idle |-> "rule", discover |-> "Phase 1", plan |-> "Phase 2", authorize |-> "Phase 3",
    execute |-> "Phase 4", decide |-> "Phase 5", act |-> "Phase 6", report |-> "Phase 7" ]

\* the hook throws on the first invocation a phase makes, the one at the end of
\* AuditLogger.log (line 55): the entry is stored, then the exception leaves the
\* phase.  Before the try block of run() it rejects the promise of run(); inside
\* it the catch block marks the run failed and calls logger.error and the hook
\* again, and either invocation may throw out of the catch block.
onEventThrows ==
  /\ pc \in DOMAIN FirstLog
  /\ pc = "execute" => i = 0
  /\ LET L1 == info(logger, IF pc = "idle" THEN "agent" ELSE "phase", FirstLog[pc], "")
     IN IF pc = "idle"
        THEN /\ \E budgetUSD \in Budgets :
                  currentRun' = [ status |-> "running", steps |-> <<>>, totalCostUSD |-> 0,
                                  budgetUSD |-> budgetUSD, budgetRemainingUSD |-> budgetUSD,
                                  startedAt |-> now, completedAt |-> 0, result |-> <<>> ]
             /\ logger' = L1
             /\ returned' = "rejected"
             /\ firstRun' = currentRun
        ELSE /\ currentRun' = runCatch(currentRun, now)
             /\ logger' = error(L1, "agent", "Workflow failed", "onEvent threw")
             /\ returned' \in {"rejected", "value"}
             /\ UNCHANGED firstRun
  /\ pc' = "done"
  /\ UNCHANGED << ret, cache, mandates, fulfillments, other >>
  /\ UNCHANGED << riskEngine, toolRegistry, wallet, plan, mandate, decision, i, call,
                  gatewayCalls, now >>

NextObserved ==
  \/ Next
  \/ onEventThrows

SpecObserved == Init /\ [][NextObserved]_vars

\* ------------------------------------------------------------------------
\* The RiskEngine used directly through its public interface
\* ------------------------------------------------------------------------

\* estimatedCostUSD / costUSD arguments: within the auto-approve ceiling,
\* above it, above the approval threshold, and above the per-transaction limit
ActionCosts ==
  { RiskPolicyOpts.maxAutoApproveUSD, RiskPolicyOpts.maxAutoApproveUSD + 20,
    RiskPolicyOpts.requireApprovalAboveUSD + 10, RiskPolicyOpts.perTransactionLimitUSD + 10 }

\* costUSD arguments of recordAction: a small and a large cost
RecordedCosts ==
  { RiskPolicyOpts.maxAutoApproveUSD, RiskPolicyOpts.perTransactionLimitUSD + 10 }

\* metadata arguments of assess
Metadatas ==
  { NoMetadata,
    [NoMetadata EXCEPT !.category = "market-data"],
    [NoMetadata EXCEPT !.category = "analytics"],
    [NoMetadata EXCEPT !.token = "DOGE"],
    [NoMetadata EXCEPT !.slippageBps = 150] }

resetDaily(re) == [re EXCEPT !.dailySpent = 0, !.actionLog = <<>>]

\* an assess that also books the estimated cost
riskAssessBooking ==
  /\ \E cost \in ActionCosts, metadata \in Metadatas :
       /\ ret' = [ op |-> "assess", args |-> << cost, metadata >>,
                   value |-> assess(riskEngine, now, "action", cost, metadata) ]
       /\ riskEngine' = [riskEngine EXCEPT !.dailySpent = @ + cost]
  /\ UNCHANGED << logger, toolRegistry, wallet, currentRun, plan, mandate, decision, i,
                  call, gatewayCalls, pc, now, returned >>
  /\ UNCHANGED << cache, mandates, fulfillments, other, firstRun >>

\* riskEngine.assess(action, estimatedCostUSD, metadata): no field is assigned
riskAssess ==
  /\ \E cost \in ActionCosts, metadata \in Metadatas :
       ret' = [ op |-> "assess", args |-> << cost, metadata >>,
                value |-> assess(riskEngine, now, "action", cost, metadata) ]
  /\ UNCHANGED << riskEngine, logger, toolRegistry, wallet, currentRun, plan, mandate,
                  decision, i, call, gatewayCalls, pc, now, returned >>
  /\ UNCHANGED << cache, mandates, fulfillments, other, firstRun >>

\* riskEngine.recordAction(action, costUSD, approved)
riskRecordAction ==
  /\ Len(riskEngine.actionLog) < MaxActions
  /\ \E cost \in RecordedCosts, approved \in BOOLEAN :
       /\ riskEngine' = recordAction(riskEngine, now, "action", cost, approved)
       /\ ret' = [op |-> "recordAction", args |-> << cost, approved >>, value |-> <<>>]
  /\ UNCHANGED << logger, toolRegistry, wallet, currentRun, plan, mandate, decision, i,
                  call, gatewayCalls, pc, now, returned >>
  /\ UNCHANGED << cache, mandates, fulfillments, other, firstRun >>

\* riskEngine.getBudgetStatus()
riskGetBudgetStatus ==
  /\ ret' = [op |-> "getBudgetStatus", args |-> <<>>, value |-> getBudgetStatus(riskEngine)]
  /\ UNCHANGED << riskEngine, logger, toolRegistry, wallet, currentRun, plan, mandate,
                  decision, i, call, gatewayCalls, pc, now, returned >>
  /\ UNCHANGED << cache, mandates, fulfillments, other, firstRun >>

\* riskEngine.resetDaily()
riskResetDaily ==
  /\ riskEngine' = resetDaily(riskEngine)
  /\ ret' = [op |-> "resetDaily", args |-> <<>>, value |-> <<>>]
  /\ UNCHANGED << logger, toolRegistry, wallet, currentRun, plan, mandate, decision, i,
                  call, gatewayCalls, pc, now, returned >>
  /\ UNCHANGED << cache, mandates, fulfillments, other, firstRun >>

\* time passes between two calls
tick ==
  /\ now < 1 + MaxTicks * PauseMs
  /\ now' = now + PauseMs
  /\ UNCHANGED << riskEngine, logger, toolRegistry, wallet, currentRun, plan, mandate,
                  decision, i, call, gatewayCalls, pc, returned, ret >>
  /\ UNCHANGED << cache, mandates, fulfillments, other, firstRun >>

NextRisk ==
  \/ riskAssess
  \/ riskRecordAction
  \/ riskGetBudgetStatus
  \/ riskResetDaily
  \/ tick

SpecRisk == Init /\ [][NextRisk]_vars

\* ------------------------------------------------------------------------
\* The AuditLogger used directly through its public interface
\* ------------------------------------------------------------------------

\* receipts handed to logPayment
Receipts ==
  { [timestamp |-> 1, protocol |-> p, tool |-> t, amountUSD |-> a, status |-> "settled"] :
      p \in {"x402", "ap2"}, t \in {"market-data", "sentiment"}, a \in {10, 50} }

\* assessments handed to logRiskAssessment: an approval and a rejection
Assessments ==
  { assess(NewRiskEngine(RiskPolicyOpts), 1, ToolAction("market-data"), c, NoMetadata) :
      c \in {RiskPolicyOpts.maxAutoApproveUSD, RiskPolicyOpts.perTransactionLimitUSD + 10} }

\* the frame of a call on the ledger
LedgerFrame ==
  UNCHANGED << riskEngine, toolRegistry, wallet, currentRun, plan, mandate, decision, i,
               call, gatewayCalls, pc, now, returned, cache, mandates, fulfillments, other, firstRun >>

\* logger.debug / info / warn / error
ledgerLog ==
  /\ Len(logger.entries) < MaxEntries
  /\ \E level \in {"debug", "info", "warn", "error"} :
       /\ logger' = log(logger, level, "test", "message", "")
       /\ ret' = [op |-> "log", args |-> << level >>, value |-> <<>>]
  /\ LedgerFrame

ledgerLogPayment ==
  /\ Len(logger.entries) < MaxEntries
  /\ \E receipt \in Receipts :
       /\ logger' = logPayment(logger, receipt)
       /\ ret' = [op |-> "logPayment", args |-> << receipt >>, value |-> <<>>]
  /\ LedgerFrame

ledgerLogRiskAssessment ==
  /\ Len(logger.entries) < MaxEntries
  /\ \E assessment \in Assessments :
       /\ logger' = logRiskAssessment(logger, assessment)
       /\ ret' = [op |-> "logRiskAssessment", args |-> << assessment >>, value |-> <<>>]
  /\ LedgerFrame

ledgerLogMandate ==
  /\ Len(logger.entries) < MaxEntries
  /\ Len(logger.mandates) < MaxEntries
  /\ \E m \in {merchantCreateMandate(1, 0), NotAMandate} :
       /\ logger' = logMandate(logger, m)
       /\ ret' = [op |-> "logMandate", args |-> << m >>, value |-> <<>>]
  /\ LedgerFrame

ledgerLogWorkflowStep ==
  /\ Len(logger.entries) < MaxEntries
  /\ \E status \in {"success", "failed"} :
       /\ logger' = logWorkflowStep(logger, Step("uuid", "execute", "market-data", "x402",
                                                 0, status, ""))
       /\ ret' = [op |-> "logWorkflowStep", args |-> << status >>, value |-> <<>>]
  /\ LedgerFrame

ledgerGetFullReport ==
  /\ ret' = [op |-> "getFullReport", args |-> <<>>, value |-> getFullReport(logger)]
  /\ UNCHANGED logger
  /\ LedgerFrame

NextLedger ==
  \/ ledgerLog
  \/ ledgerLogPayment
  \/ ledgerLogRiskAssessment
  \/ ledgerLogMandate
  \/ ledgerLogWorkflowStep
  \/ ledgerGetFullReport

SpecLedger == Init /\ [][NextLedger]_vars

\* ------------------------------------------------------------------------
\* The sentiment provider of the merchant (providers/sentiment.ts)
\*
\* Scores are counted in thousandths, weights and confidences in hundredths.
\* ------------------------------------------------------------------------

\* the value of 0 / 0
NaN == 999999

\* a / b rounded to the nearest integer, as toFixed rounds (b >= 0)
Quot(a, b) ==
  IF b = 0 THEN NaN
  ELSE IF a >= 0 THEN (2 * a + b) \div (2 * b)
  ELSE 0 - ((2 * (0 - a) + b) \div (2 * b))

\* getCached(key): <<data>> or <<>> for null
getCached(c, key, t) ==
  IF key \in DOMAIN c /\ c[key].expiresAt > t THEN << c[key].data >> ELSE <<>>

\* cache.delete(key)
cacheDelete(c, key) == [k \in DOMAIN c \ {key} |-> c[k]]

\* setCache(key, data)
setCache(c, key, data, t) ==
  [k \in DOMAIN c \cup {key} |->
     IF k = key THEN [data |-> data, expiresAt |-> t + CACHE_TTL_MS] ELSE c[k]]

\* what fetchNews resolves to: the sentiments of the articles, <<>> when the
\* request failed or returned no article
NewsOutcomes == SeqsUpTo({"positive", "negative", "neutral"}, MaxNews)

\* what fetchFearGreed resolves to: <<>> for null (the request failed)
FearGreedOutcomes ==
  { <<>>, << [value |-> 80, label |-> "Greed"] >> }

\* what the CoinGecko request of fetchOnChainSignals gives: it fails, or it
\* answers and score is derived from the coin's volume and community data
OnChainOutcomes ==
  { [ok |-> FALSE, score |-> 0], [ok |-> TRUE, score |-> -300], [ok |-> TRUE, score |-> -96],
    [ok |-> TRUE, score |-> 500] }

\* fetchOnChainSignals(token)
fetchOnChainSignals(o) ==
  IF ~o.ok
  THEN [source |-> "onchain", score |-> 0, label |-> "unavailable", confidence |-> 0]
  ELSE [ source |-> "onchain", score |-> o.score,
         label |-> IF o.score > 200 THEN "accumulating"
                   ELSE IF o.score < -200 THEN "distributing" ELSE "neutral",
         confidence |-> 65 ]

\* news.filter(n => n.sentiment === s).length
RECURSIVE CountOf(_, _)
CountOf(news, sentiment) ==
  IF news = <<>> THEN 0
  ELSE (IF news[1] = sentiment THEN 1 ELSE 0) + CountOf(Tail(news), sentiment)

\* the signal built from the articles (lines 222-239)
newsSignal(news) ==
  LET posCount == CountOf(news, "positive")
      negCount == CountOf(news, "negative")
      diff == (posCount - negCount) * 1000
      conf == 50 + Len(news) * 4
  IN  [ source |-> "news", score |-> Quot(diff, Len(news)),
        label |-> IF diff > 200 * Len(news) THEN "bullish"
                  ELSE IF diff < (0 - 200) * Len(news) THEN "bearish" ELSE "neutral",
        confidence |-> IF conf < 90 THEN conf ELSE 90 ]

\* the signal built from the fear and greed index (lines 242-255)
fearGreedSignal(fg) ==
  [ source |-> "fear-greed-index", score |-> (fg.value - 50) * 20, label |-> fg.label,
    confidence |-> 75 ]

\* const weights; weights[sig.source] || 0.33
SignalWeight(source) ==
  CASE source = "news" -> 35
    [] source = "fear-greed-index" -> 30
    [] source = "onchain" -> 35
    [] OTHER -> 33

\* the loop of lines 266-270
RECURSIVE Weigh(_, _)
Weigh(signals, acc) ==
  IF signals = <<>> THEN acc
  ELSE LET sig == signals[1]
           w == SignalWeight(sig.source)
       IN  Weigh(Tail(signals),
                 [ weightedSum |-> acc.weightedSum + sig.score * w * sig.confidence,
                   totalWeight |-> acc.totalWeight + w * sig.confidence ])

\* an aggregation that divides without looking at the total weight
aggregateUnguarded(signals) ==
  LET sums == Weigh(signals, [weightedSum |-> 0, totalWeight |-> 0])
  IN  [ score |-> Quot(sums.weightedSum, sums.totalWeight),
        label |-> IF sums.weightedSum > 250 * sums.totalWeight THEN "bullish"
                  ELSE IF sums.weightedSum < (0 - 250) * sums.totalWeight THEN "bearish"
                  ELSE "neutral",
        confidence |-> Quot(sums.totalWeight, Len(signals) * 10) ]

\* an aggregation that takes the weight of a signal from its position in the list
aggregatePositional(signals) ==
  LET order == << "news", "fear-greed-index", "onchain" >>
      placed == [k \in 1..Len(signals) |-> [signals[k] EXCEPT !.source = order[k]]]
      sums == Weigh(placed, [weightedSum |-> 0, totalWeight |-> 0])
      scored == sums.totalWeight > 0
  IN  [ score |-> IF scored THEN Quot(sums.weightedSum, sums.totalWeight) ELSE 0,
        label |-> IF scored /\ sums.weightedSum > 250 * sums.totalWeight THEN "bullish"
                  ELSE IF scored /\ sums.weightedSum < (0 - 250) * sums.totalWeight
                       THEN "bearish"
                  ELSE "neutral",
        confidence |-> IF scored THEN Quot(sums.totalWeight, Len(signals) * 10) ELSE 0 ]

\* the composite score, label and confidence (lines 262-276 and 287-291)
aggregate(signals) ==
  LET sums == Weigh(signals, [weightedSum |-> 0, totalWeight |-> 0])
      scored == sums.totalWeight > 0
  IN  [ score |-> IF scored THEN Quot(sums.weightedSum, sums.totalWeight) ELSE 0,
        label |-> IF scored /\ sums.weightedSum > 250 * sums.totalWeight THEN "bullish"
                  ELSE IF scored /\ sums.weightedSum < (0 - 250) * sums.totalWeight
                       THEN "bearish"
                  ELSE "neutral",
        confidence |-> IF scored THEN Quot(sums.totalWeight, Len(signals) * 10) ELSE 0 ]

\* the requestedSources argument of fetchSentiment
RequestedSources == {"all", "fear-greed"}

\* fetchSentiment(token, requestedSources) for one token: a cached result that
\* has not expired is returned as it is; otherwise the requested sources are
\* fetched, the signals built and aggregated, and the result cached
fetchSentiment ==
  /\ \E requestedSources \in RequestedSources :
       LET cacheKey == requestedSources
           cached == getCached(cache, cacheKey, now)
           wants(source) == requestedSources \in {source, "all"}
       IN IF cached # <<>>
          THEN /\ ret' = [ op |-> "fetchSentiment", args |-> << requestedSources, "hit" >>,
                           value |-> cached[1] ]
               /\ UNCHANGED cache
          ELSE \E news \in IF wants("news") THEN NewsOutcomes ELSE {<<>>},
                  fearGreed \in IF wants("fear-greed") THEN FearGreedOutcomes ELSE {<<>>},
                  onChain \in IF wants("onchain")
                              THEN {<< fetchOnChainSignals(o) >> : o \in OnChainOutcomes}
                              ELSE {<<>>} :
                 LET signals ==
                       (IF Len(news) > 0 THEN << newsSignal(news) >> ELSE <<>>)
                       \o (IF fearGreed # <<>> THEN << fearGreedSignal(fearGreed[1]) >> ELSE <<>>)
                       \o onChain
                     result == [ overall |-> aggregate(signals), signals |-> signals,
                                 news |-> news, fearGreedIndex |-> fearGreed,
                                 live |-> Len(signals) > 0 ]
                 IN /\ cache' = setCache(cacheDelete(cache, cacheKey), cacheKey, result, now)
                    /\ ret' = [ op |-> "fetchSentiment",
                                args |-> << requestedSources, "miss", news, fearGreed, onChain >>,
                                value |-> result ]
  /\ UNCHANGED << riskEngine, logger, toolRegistry, wallet, currentRun, plan, mandate,
                  decision, i, call, gatewayCalls, pc, now, returned >>
  /\ UNCHANGED << mandates, fulfillments, other, firstRun >>

\* time passes between two requests, half a cache lifetime at a time
cacheTick ==
  /\ now < 1 + MaxTicks * (CACHE_TTL_MS \div 2)
  /\ now' = now + CACHE_TTL_MS \div 2
  /\ UNCHANGED << riskEngine, logger, toolRegistry, wallet, currentRun, plan, mandate,
                  decision, i, call, gatewayCalls, pc, returned, ret, cache >>
  /\ UNCHANGED << mandates, fulfillments, other, firstRun >>

NextSentiment ==
  \/ fetchSentiment
  \/ cacheTick

SpecSentiment == Init /\ [][NextSentiment]_vars

\* ------------------------------------------------------------------------
\* The deterministic reasoning used when no GEMINI_API_KEY is set
\* (fallbackReasoning)
\*
\* A research result is an entry of resultSummary (phaseDecide, lines 558-562):
\* the tool, success, and data: null ("null"), the JSON text of the tool's
\* answer ("json") or that text cut at 2000 characters, which JSON.parse
\* rejects ("truncated").  value is the number the fallback reads from the
\* answer: change24h in hundredths of a percent for market-data,
\* overall.score in thousandths for sentiment, riskMetrics.largestPositionPct
\* in tenths of a percent for portfolio-analytics, routes[0].priceImpactBps
\* for route-optimizer.
\* ------------------------------------------------------------------------

\* the tools whose answers the decision reads
ResearchTools == {"market-data", "sentiment", "portfolio-analytics", "route-optimizer"}

\* the numbers an answer may carry, either side of each threshold
ResearchValues ==
  [ x \in ResearchTools |->
      CASE x = "market-data"         -> {200, 201}
        [] x = "sentiment"           -> {150, 151}
        [] x = "portfolio-analytics" -> {600, 601}
        [] x = "route-optimizer"     -> {49, 50} ]

\* the entries of one tool: a failed step (data null), an answer, and for the
\* sentiment tool an answer longer than 2000 characters
ResearchEntries(x) ==
  { [tool |-> x, success |-> FALSE, data |-> "null", value |-> 0] }
  \cup { [tool |-> x, success |-> TRUE, data |-> "json", value |-> v] : v \in ResearchValues[x] }
  \cup (IF x = "sentiment"
        THEN { [tool |-> x, success |-> TRUE, data |-> "truncated", value |-> 0] }
        ELSE {})

\* research results: at most MaxResults entries, of different tools
RECURSIVE ResearchResults(_)
ResearchResults(n) ==
  IF n = 0 THEN {<<>>}
  ELSE LET shorter == ResearchResults(n - 1)
           entries == UNION { ResearchEntries(x) : x \in ResearchTools }
           longest == {q \in shorter : Len(q) = n - 1}
       IN  shorter \cup
           UNION { { Append(r, e) : e \in {f \in entries :
                                              \A j \in 1..Len(r) : r[j].tool # f.tool} } :
                   r \in longest }

\* the last message of a callLLM invocation, by the marker it contains
Messages ==
  { [kind |-> k, results |-> <<>>] : k \in {"plan", "report", "other"} }
  \cup { [kind |-> "decide", results |-> r] : r \in ResearchResults(MaxResults) }

\* a plan that names a tool the catalog does not have
fallbackPlanUnknownTool ==
  [ plan |-> << "web-search", "market-data", "sentiment", "portfolio-analytics",
                "route-finder" >>,
    estimatedCostUSD |-> 130 ]

\* lines 115-134: the plan of the fallback
fallbackPlan ==
  [ plan |-> << "web-search", "market-data", "sentiment", "portfolio-analytics",
                "route-optimizer" >>,
    estimatedCostUSD |-> 130 ]

\* the values before any result is read (lines 141-145); parseFloat('N/A') is NaN
NoResearch == [change24h |-> NaN, sentimentScore |-> 0, portfolioAllocation |-> 0,
               priceImpact |-> 0, thrown |-> FALSE]

\* lines 147-177: the loop over the results inside one try block.  An entry
\* without data or success is skipped; JSON.parse of a cut text throws, which
\* leaves the loop with the values read so far
RECURSIVE ReadResults(_, _)
ReadResults(results, acc) ==
  IF results = <<>> \/ acc.thrown THEN acc
  ELSE LET result == results[1]
       IN  IF result.data = "null" \/ ~result.success
           THEN ReadResults(Tail(results), acc)
           ELSE IF result.data = "truncated"
           THEN [acc EXCEPT !.thrown = TRUE]
           ELSE ReadResults(Tail(results),
                  CASE result.tool = "market-data" -> [acc EXCEPT !.change24h = result.value]
                    [] result.tool = "sentiment" -> [acc EXCEPT !.sentimentScore = result.value]
                    [] result.tool = "route-optimizer" -> [acc EXCEPT !.priceImpact = result.value]
                    [] result.tool = "portfolio-analytics" ->
                         [acc EXCEPT !.portfolioAllocation = result.value]
                    [] OTHER -> acc)

\* lines 139-227: the decision of the fallback
fallbackDecide(results) ==
  LET read == ReadResults(results, NoResearch)
      isBullish == read.sentimentScore > 150 \/ (read.change24h # NaN /\ read.change24h > 200)
      isHighConcentration == read.portfolioAllocation > 600
      isLowImpact == read.priceImpact < 50
  IN  IF isBullish /\ ~isHighConcentration /\ isLowImpact
      THEN [decision |-> "buy", action |-> << [tool |-> "trade-execute"] >>]
      ELSE [decision |-> "hold", action |-> <<>>]

\* fallbackReasoning(messages)
fallbackReasoning(message) ==
  CASE message.kind = "plan" -> [kind |-> "plan", plan |-> fallbackPlan, decision |-> NoDecision]
    [] message.kind = "decide" ->
         [kind |-> "decide", plan |-> NoPlan, decision |-> fallbackDecide(message.results)]
    [] OTHER -> [kind |-> message.kind, plan |-> NoPlan, decision |-> NoDecision]

\* callLLM(messages) was invoked with a last message of Messages
InitReasoning ==
  /\ riskEngine = NewRiskEngine(RiskPolicyOpts)
  /\ logger = NewLogger
  /\ toolRegistry = <<>>
  /\ wallet = "pending"
  /\ currentRun = NoRun
  /\ plan = NoPlan
  /\ mandate = <<>>
  /\ decision = NoDecision
  /\ i = 0
  /\ call = NoCall
  /\ gatewayCalls = <<>>
  /\ pc = "idle"
  /\ now = 1
  /\ returned = "none"
  /\ ret \in { [op |-> "callLLM", args |-> << message >>, value |-> <<>>] :
                message \in Messages }
  /\ cache = <<>>
  /\ mandates = <<>>
  /\ fulfillments = <<>>
  /\ other = NoInvocation
  /\ firstRun = NoRun

\* callLLM(messages) without GEMINI_API_KEY (lines 72-75)
callLLMFallback ==
  /\ ret.op = "callLLM"
  /\ ret' = [op |-> "fallbackReasoning", args |-> ret.args,
             value |-> fallbackReasoning(ret.args[1])]
  /\ UNCHANGED << riskEngine, logger, toolRegistry, wallet, currentRun, plan, mandate,
                  decision, i, call, gatewayCalls, pc, now, returned, cache >>
  /\ UNCHANGED << mandates, fulfillments, other, firstRun >>

NextReasoning ==
  \/ callLLMFallback

SpecReasoning == InitReasoning /\ [][NextReasoning]_vars

\* ------------------------------------------------------------------------
\* The mandate routes of the merchant server
\*
\* mandates is the server's Map; a mandate's id is its position in it.  ret
\* holds the last request and its response.
\* ------------------------------------------------------------------------

\* maxValueUSD of a creation request; 0 stands for a body without the field
MandateValues == {0, 15}

\* ids a request can name: those of the stored mandates and unknown ones
MandateIds == 1..MaxMandates

MandatesFrame ==
  UNCHANGED << riskEngine, logger, toolRegistry, wallet, currentRun, plan, mandate,
               decision, i, call, gatewayCalls, pc, now, returned, cache, fulfillments,
               other, firstRun >>

\* the response of a route: the HTTP status code, and the status of the
\* mandate the body describes ("" for an error body)
Response(code, status) == << [code |-> code, status |-> status] >>

\* POST /api/v1/mandates
postMandate ==
  /\ Len(mandates) < MaxMandates
  /\ \E maxValueUSD \in MandateValues :
       LET m == merchantCreateMandate(Len(mandates) + 1, maxValueUSD)
       IN /\ mandates' = Append(mandates, m)
          /\ ret' = [op |-> "postMandate", args |-> << maxValueUSD >>,
                     value |-> Response(200, m.status)]
  /\ MandatesFrame

\* POST /api/v1/mandates/:id/authorize
postAuthorize ==
  /\ \E id \in MandateIds :
       IF id \notin DOMAIN mandates
       THEN /\ ret' = [op |-> "postAuthorize", args |-> << id >>, value |-> Response(404, "")]
            /\ UNCHANGED mandates
       ELSE LET m == merchantAuthorize(mandates[id])
            IN /\ mandates' = [mandates EXCEPT ![id] = m]
               /\ ret' = [op |-> "postAuthorize", args |-> << id >>,
                          value |-> Response(200, m.status)]
  /\ MandatesFrame

\* GET /api/v1/mandates/:id
getMandate ==
  /\ \E id \in MandateIds :
       ret' = [op |-> "getMandate", args |-> << id >>,
               value |-> IF id \in DOMAIN mandates THEN Response(200, mandates[id].status)
                         ELSE Response(404, "")]
  /\ UNCHANGED mandates
  /\ MandatesFrame

\* the mandate after a fulfillment request was accepted
merchantFulfill(m) == [m EXCEPT !.status = "fulfilled"]

\* POST /api/v1/mandates/:id/fulfill
postFulfill ==
  /\ \E id \in MandateIds :
       IF id \notin DOMAIN mandates
       THEN /\ ret' = [op |-> "postFulfill", args |-> << id >>, value |-> Response(404, "")]
            /\ UNCHANGED mandates
       ELSE IF mandates[id].status # "authorized"
       THEN /\ ret' = [op |-> "postFulfill", args |-> << id >>, value |-> Response(400, "")]
            /\ UNCHANGED mandates
       ELSE /\ mandates' = [mandates EXCEPT ![id] = merchantFulfill(mandates[id])]
            /\ ret' = [op |-> "postFulfill", args |-> << id >>,
                       value |-> Response(200, "fulfilled")]
  /\ MandatesFrame

NextMandates ==
  \/ postMandate
  \/ postAuthorize
  \/ getMandate
  \/ postFulfill

SpecMandates == Init /\ [][NextMandates]_vars

\* ------------------------------------------------------------------------
\* Two run() invocations on one AriaAgent
\*
\* The first invocation is taken at the point where phaseReport awaits the
\* reasoning capability, after it discovered the catalog, planned and paid for
\* market-data under an authorized mandate, and decided to hold.  The caller
\* then calls run() again, before or after that call answers.  The variables
\* pc, plan, mandate, decision, i, call and returned are those of the
\* invocation being followed; other holds those of the invocation that waits.
\* ------------------------------------------------------------------------

\* The first invocation, phase by phase: the logger after each phase.
FirstBudgetUSD == 1000

FirstTool == "market-data"

\* run(): the RunState of the first invocation
FirstRunState ==
  [ status |-> "running", steps |-> <<>>, totalCostUSD |-> 0,
    budgetUSD |-> FirstBudgetUSD, budgetRemainingUSD |-> FirstBudgetUSD,
    startedAt |-> 1, completedAt |-> 0, result |-> <<>> ]

FirstWalletLog == info(NewLogger, "wallet", "AgentWallet initialized", "")

FirstRunLog ==
  info(info(info(info(FirstWalletLog, "agent", "rule", ""),
       "agent", "ARIA Workflow Started", ""), "agent", "Budget", ""), "agent", "rule", "")

\* phaseDiscover
FirstDiscoverStep == Step("discover", "discover", "", "", 0, "success", "")

FirstDiscoverLog ==
  logWorkflowStep(info(info(info(FirstRunLog, "phase", "Phase 1", ""),
      "discovery", "Discovering tools", ""), "discovery", "Found tools", ""), FirstDiscoverStep)

\* phasePlan
FirstPlanStep == Step("plan", "reason", "", "", 0, "success", "")

FirstPlan == [plan |-> << FirstTool >>, estimatedCostUSD |-> 10]

FirstPlanLog ==
  logWorkflowStep(info(info(FirstDiscoverLog, "phase", "Phase 2", ""), "plan", "Planned", ""),
                  FirstPlanStep)

\* phaseAuthorize
FirstAuthorizeStep == Step("authorize", "authorize", "", "", 0, "success", "")

FirstMandate == merchantCreateMandate(1, (FirstPlan.estimatedCostUSD * 3) \div 2)

FirstMandateLog == logMandate(info(FirstPlanLog, "phase", "Phase 3", ""), FirstMandate)

FirstAuthorizeLog ==
  logWorkflowStep(info(FirstMandateLog, "ap2", "Mandate authorized", ""), FirstAuthorizeStep)

\* phaseExecute and executeTool
FirstCall == [toolId |-> FirstTool, protocolHint |-> "ap2"]

FirstExecuteLog ==
  info(info(FirstAuthorizeLog, "phase", "Phase 4", ""), "execute", "Step", FirstTool)

FirstAssessed ==
  executeToolAssess(FirstExecuteLog, NewRiskEngine(RiskPolicyOpts), TOOLS, 1, FirstTool, "ap2")

FirstAssessedLog == FirstAssessed.logger

FirstFetched ==
  executeToolFetch(FirstAssessedLog, NewRiskEngine(RiskPolicyOpts), TOOLS, 1, FirstCall,
                   "ready", [ok |-> TRUE, estimate |-> 10, settlement |-> "success"])

FirstFetchedLog == FirstFetched.logger

\* phaseDecide
FirstDecideStep == Step("decide", "reason", "", "", 0, "success", "")

FirstDecideLog ==
  logWorkflowStep(info(info(FirstFetchedLog, "phase", "Phase 5", ""),
                       "decide", "Decision", "hold"), FirstDecideStep)

\* the agent when the first invocation reaches `await callLLM` in phaseReport
FirstInvocation ==
  [ riskEngine |-> FirstFetched.riskEngine,
    logger |-> FirstDecideLog,
    currentRun |-> pushStep(executeRecord(pushStep(pushStep(pushStep(FirstRunState,
                       FirstDiscoverStep), FirstPlanStep), FirstAuthorizeStep),
                       FirstFetched.step), FirstDecideStep),
    plan |-> FirstPlan,
    mandate |-> << merchantAuthorize(FirstMandate) >>,
    decision |-> [decision |-> "hold", action |-> <<>>],
    gatewayCalls |-> << FirstCall >> ]

InitTwoRuns ==
  /\ riskEngine = FirstInvocation.riskEngine
  /\ logger = FirstInvocation.logger
  /\ toolRegistry = TOOLS
  /\ wallet = "ready"
  /\ currentRun = FirstInvocation.currentRun
  /\ plan = NoPlan
  /\ mandate = <<>>
  /\ decision = NoDecision
  /\ i = 0
  /\ call = NoCall
  /\ gatewayCalls = FirstInvocation.gatewayCalls
  /\ pc = "idle"
  /\ now = 1
  /\ returned = "none"
  /\ ret = NoRet
  /\ cache = <<>>
  /\ mandates = <<>>
  /\ fulfillments = <<>>
  /\ other = [ inv |-> 1, pc |-> "report", plan |-> FirstInvocation.plan,
               mandate |-> FirstInvocation.mandate, decision |-> FirstInvocation.decision,
               i |-> 1, call |-> NoCall, returned |-> "none" ]
  /\ firstRun = NoRun

\* the positions of the followed invocation at which the waiting one goes on:
\* before run() is called again, and while the catalog request of
\* phaseDiscover is awaited; an invocation that returned leaves the turn to the
\* other one
SwitchPoints == {"idle", "discover", "done"}

\* the call the waiting invocation awaits answers: its continuation runs, and
\* the invocation followed so far waits
resume ==
  /\ other.pc \notin {"none", "done"}
  /\ pc \in SwitchPoints
  /\ pc' = other.pc
  /\ plan' = other.plan
  /\ mandate' = other.mandate
  /\ decision' = other.decision
  /\ i' = other.i
  /\ call' = other.call
  /\ returned' = other.returned
  /\ other' = [ inv |-> 3 - other.inv, pc |-> pc, plan |-> plan, mandate |-> mandate,
                decision |-> decision, i |-> i, call |-> call, returned |-> returned ]
  /\ UNCHANGED << riskEngine, logger, toolRegistry, wallet, currentRun, gatewayCalls, now,
                  ret, cache, mandates, fulfillments, firstRun >>

NextTwoRuns ==
  \/ run
  \/ phaseDiscover
  \/ phasePlan
  \/ phaseAuthorize
  \/ phaseExecute
  \/ executeGateway
  \/ pause
  \/ phaseDecide
  \/ phaseTradeExecute
  \/ tradeGateway
  \/ phaseReport
  \/ fulfillMandate
  \/ resume

SpecTwoRuns == InitTwoRuns /\ [][NextTwoRuns]_vars

\* ------------------------------------------------------------------------
\* Scheduling
\* ------------------------------------------------------------------------

\* The steps that wait for nothing outside the process are taken: the
\* synchronous part of an Execute entry or of the follow-up action, and the
\* timer between two entries.  Every other step is the continuation of an
\* awaited external call (catalog fetch, reasoning capability, mandate
\* endpoint, wallet initialization, payment gateway): fetch is called without
\* AbortSignal or timer, so the step is taken only if the call answers.
SpecFair ==
  /\ Spec
  /\ WF_vars(phaseExecute)
  /\ WF_vars(pause)
  /\ WF_vars(phaseTradeExecute)

\* ------------------------------------------------------------------------
\* Properties
\* ------------------------------------------------------------------------

Last(q) == q[Len(q)]

GatewayPcs == {"execGateway", "actGateway"}

ToolIds == {TOOLS[k].id : k \in 1..Len(TOOLS)} \cup PlanToolIds \cup ActionToolIds

ApprovedFor(toolId) ==
  {k \in 1..Len(logger.riskAssessments) :
     logger.riskAssessments[k].approved
     /\ logger.riskAssessments[k].action = ToolAction(toolId)}

CallsFor(toolId) == {k \in 1..Len(gatewayCalls) : gatewayCalls[k].toolId = toolId}

\* while a gateway call is in flight, the assessment logged last is an approval
\* of the tool being called; calls of a tool never outnumber its approvals
C1_Inv ==
  /\ pc \in GatewayPcs =>
       /\ logger.riskAssessments # <<>>
       /\ Last(logger.riskAssessments).approved
       /\ Last(logger.riskAssessments).action = ToolAction(call.toolId)
  /\ \A toolId \in ToolIds : Cardinality(CallsFor(toolId)) <= Cardinality(ApprovedFor(toolId))

\* a request reaches the gateway only from an invocation whose assessment was
\* approved; a step that logs a rejection makes no gateway call, records no
\* receipt, leaves the risk engine alone and appends a failed step for the tool
C1_Step ==
  /\ gatewayCalls' # gatewayCalls =>
       /\ pc \in GatewayPcs
       /\ gatewayCalls' = Append(gatewayCalls, call)
       /\ Last(logger.riskAssessments).approved
       /\ Last(logger.riskAssessments).action = ToolAction(call.toolId)
  /\ ( /\ Len(logger'.riskAssessments) > Len(logger.riskAssessments)
       /\ ~Last(logger'.riskAssessments).approved ) =>
       /\ gatewayCalls' = gatewayCalls
       /\ logger'.receipts = logger.receipts
       /\ riskEngine' = riskEngine
       /\ pc' \notin GatewayPcs
       /\ Len(currentRun'.steps) = Len(currentRun.steps) + 1
       /\ Last(currentRun'.steps).status = "failed"
       /\ ToolAction(Last(currentRun'.steps).tool) = Last(logger'.riskAssessments).action

\* C1: a paid gateway call for a tool happens only after RiskEngine.assess
\* approved that tool in the same executeTool invocation; on a rejection
\* executeTool makes no gateway call, records no receipt, does not call
\* recordAction and returns a failed step.
C1_GatewayOnlyAfterApproval == [](C1_Inv) /\ [][C1_Step]_vars

\* a run in which one tool was rejected and another one was called
C1_Witness ==
  /\ gatewayCalls # <<>>
  /\ \E k \in 1..Len(logger.riskAssessments) : ~logger.riskAssessments[k].approved
  /\ \E k \in 1..Len(currentRun.steps) :
       currentRun.steps[k].type = "pay" /\ currentRun.steps[k].status = "failed"

\* C2: after every recordAction the cumulative spend of the risk engine and
\* the sum of all receipt amounts are at most policy.dailyLimitUSD, also when
\* the amount recorded is the gateway's cost estimate.
C2_SpendWithinDailyLimit ==
  /\ riskEngine.dailySpent <= riskEngine.policy.dailyLimitUSD
  /\ SumAmountUSD(logger.receipts) <= riskEngine.policy.dailyLimitUSD

\* C3: the run's budgetRemainingUSD is never negative.
C3_BudgetNeverNegative == currentRun.budgetRemainingUSD >= 0

RECURSIVE SumSettledUSD(_)
SumSettledUSD(rs) ==
  IF rs = <<>> THEN 0
  ELSE (IF rs[1].status = "settled" THEN rs[1].amountUSD ELSE 0) + SumSettledUSD(Tail(rs))

\* C4: totalCostUSD of the run equals the sum of the amounts of the settled
\* receipts recorded so far.
C4_TotalIsSettledSpend == currentRun.totalCostUSD = SumSettledUSD(logger.receipts)

ReceiptEntry(e, toolId) ==
  e.category = "payment" /\ e.message = "receipt" /\ e.ref = toolId

ApprovalEntry(e, toolId) ==
  e.category = "risk" /\ e.message = "approved" /\ e.ref = ToolAction(toolId)

\* C5: in the ledger every receipt of a tool is preceded, in insertion order,
\* by an approved assessment of that tool (in every prefix of the log the
\* receipts of a tool do not outnumber its approvals), and the receipts never
\* outnumber the approved assessments.
C5_ReceiptHasApproval ==
  /\ \A n \in 1..Len(logger.entries) :
       LET toolId == logger.entries[n].ref
       IN  ReceiptEntry(logger.entries[n], toolId) =>
             Cardinality({k \in 1..n : ReceiptEntry(logger.entries[k], toolId)})
               <= Cardinality({k \in 1..n : ApprovalEntry(logger.entries[k], toolId)})
  /\ Cardinality({k \in 1..Len(logger.entries) :
                    ReceiptEntry(logger.entries[k], logger.entries[k].ref)})
       = Len(logger.receipts)
  /\ \A toolId \in ToolIds :
       Cardinality({k \in 1..Len(logger.receipts) : logger.receipts[k].tool = toolId})
         <= Cardinality(ApprovedFor(toolId))
  /\ Len(logger.receipts)
       <= Cardinality({k \in 1..Len(logger.riskAssessments) : logger.riskAssessments[k].approved})

\* two receipts in a ledger that also holds a rejection
C5_Witness ==
  /\ Len(logger.receipts) >= 2
  /\ \E k \in 1..Len(logger.riskAssessments) : ~logger.riskAssessments[k].approved

WorkflowFailed(e) == e.level = "error" /\ e.category = "agent"

\* the step in which a phase throws: run() returns the run, failed, stamped,
\* with the steps it had
C6_Step ==
  (currentRun.status = "running" /\ WorkflowFailed(Last(logger'.entries))
     /\ Len(logger'.entries) > Len(logger.entries)) =>
    /\ returned' = "value"
    /\ pc' = "done"
    /\ currentRun'.status = "failed"
    /\ currentRun'.completedAt > 0
    /\ currentRun'.steps = currentRun.steps

\* C6: when a phase of run() throws, run() does not throw: it returns the run
\* with status failed, completedAt set and the steps appended so far, in order.
C6_FailureReturnsRun ==
  /\ [][C6_Step]_vars
  /\ [](returned # "rejected")
  /\ []((pc = "done") => (returned = "value" /\ currentRun.status \in {"completed", "failed"}
                           /\ currentRun.completedAt > 0))
  /\ []((currentRun.status = "failed") <=>
          (logger.entries # <<>> /\ WorkflowFailed(Last(logger.entries))))

\* a run that failed in Decide or later, with the steps of the earlier phases
C6_Witness ==
  /\ pc = "done" /\ returned = "value"
  /\ currentRun.status = "failed"
  /\ Len(currentRun.steps) >= 4

HasStep(id) == \E k \in 1..Len(currentRun.steps) : currentRun.steps[k].id = id

\* C7: the Execute phase appends one step per plan entry and proceeds to
\* Decide: a run that got past Authorize does not end with fewer than
\* 3 + N steps, and no missing tool ends it.
C7_ExecuteNeverAborts ==
  /\ (pc = "done" /\ HasStep("authorize")) => Len(currentRun.steps) >= 3 + Len(plan.plan)
  /\ \A k \in 1..Len(logger.entries) :
       ~(WorkflowFailed(logger.entries[k]) /\ logger.entries[k].ref = "Tool not found"
         /\ ~HasStep("decide"))

\* the steps executeTool produced
ToolStep(st) == st.id = "uuid"

IndexOf(id) == CHOOSE k \in 1..Len(currentRun.steps) : currentRun.steps[k].id = id

\* number of plan entries whose step is in the run
ExecuteSteps ==
  Cardinality({k \in 1..Len(currentRun.steps) :
                 ToolStep(currentRun.steps[k]) /\ (HasStep("decide") => k < IndexOf("decide"))})

\* the steps appended after the decide step
ActSteps ==
  {k \in 1..Len(currentRun.steps) :
     ToolStep(currentRun.steps[k]) /\ HasStep("decide") /\ k > IndexOf("decide")}

\* C8: steps are appended in the order discover, plan, authorize, one execute
\* step per plan entry, decide, optional act step, report; no phase begins
\* before the previous phase's step is appended; a completed run starts with
\* discover, plan, authorize and ends with report.
C8_PhaseOrder ==
  LET st == currentRun.steps
      n == Len(plan.plan)
  IN /\ Len(st) >= 1 => st[1].id = "discover"
     /\ Len(st) >= 2 => st[2].id = "plan"
     /\ Len(st) >= 3 => st[3].id = "authorize"
     /\ \A k \in 4..Len(st) :
          \/ k <= 3 + n /\ ToolStep(st[k])
          \/ k = 4 + n /\ st[k].id = "decide"
          \/ k = 5 + n /\ (ToolStep(st[k]) \/ st[k].id = "report") /\ st[k - 1].id = "decide"
          \/ k = 6 + n /\ st[k].id = "report" /\ ToolStep(st[k - 1])
     /\ pc = "discover" => Len(st) = 0
     /\ pc = "plan" => Len(st) = 1
     /\ pc = "authorize" => Len(st) = 2
     /\ pc \in {"execute", "execGateway", "pause"} => Len(st) = 3 + i
     /\ pc = "decide" => Len(st) = 3 + n
     /\ pc \in {"act", "actGateway"} => Len(st) = 4 + n
     /\ pc = "report" => Len(st) \in {4 + n, 5 + n} /\ (ToolStep(Last(st)) \/ Last(st).id = "decide")
     /\ currentRun.status = "completed" =>
          Len(st) >= 5 + n /\ Last(st).id = "report" /\ ExecuteSteps = n

\* a completed run with two execute steps and an act step
C8_Witness ==
  /\ currentRun.status = "completed"
  /\ Len(plan.plan) = 2
  /\ Len(currentRun.steps) = 8

\* C9: the Act phase runs iff the decision has a follow-up action: without one
\* no step lies between the decide step and the report step, with one exactly
\* one step, produced by executeTool, follows the decide step.
C9_ActIffAction ==
  (pc = "done" /\ HasStep("decide")) =>
     IF decision.action = <<>> THEN ActSteps = {}
     ELSE Cardinality(ActSteps) = 1

AuthorizeFailed ==
  HasStep("authorize") /\ currentRun.steps[IndexOf("authorize")].status = "failed"

\* C10: when the Authorize phase fails, one failed authorize step with an
\* error is appended, the run stays running, and the Execute phase runs every
\* plan entry through RiskEngine.assess with protocol x402.
C10_AuthorizeFailureNonFatal ==
  /\ (pc = "execute" /\ i = 0 /\ mandate = <<>>) =>
       /\ currentRun.status = "running"
       /\ Cardinality({k \in 1..Len(currentRun.steps) : currentRun.steps[k].id = "authorize"}) = 1
       /\ AuthorizeFailed
       /\ currentRun.steps[IndexOf("authorize")].error # ""
  /\ (pc \in GatewayPcs /\ AuthorizeFailed) => call.protocolHint = "x402"
  /\ (pc = "done" /\ AuthorizeFailed) =>
       /\ ExecuteSteps = Len(plan.plan)
       /\ Len(logger.riskAssessments) >= Len(plan.plan)

\* what the reasoning capability returned as text in the Plan phase (callLLM
\* throwing returns no text)
PlanResponseTexts == {"nonjson", "jsonNull", "planNotList", "jsonOther"}

\* C11: a plan response text that is not a plan of the expected structure
\* (text that is not JSON, JSON null, another JSON value, an object whose plan
\* is not a list) never makes phasePlan raise: no run fails in the Plan phase
\* on such a response, and a run that left the Plan phase has its plan step.
C11_MalformedPlanDegrades ==
  /\ \A k \in 1..Len(logger.entries) :
       ~( WorkflowFailed(logger.entries[k]) /\ logger.entries[k].ref \in PlanResponseTexts
          /\ HasStep("discover") /\ ~HasStep("plan") )
  /\ pc \in {"authorize", "execute", "decide", "report"} =>
       /\ HasStep("plan")
       /\ currentRun.steps[IndexOf("plan")].status = "success"

\* C12: an observer hook that throws changes nothing: run() never rejects and
\* no run is marked failed because the hook threw.
C12_ObserverFailureIgnored ==
  /\ returned # "rejected"
  /\ \A k \in 1..Len(logger.entries) :
       ~(WorkflowFailed(logger.entries[k]) /\ logger.entries[k].ref = "onEvent threw")

\* C13: every run eventually reaches a terminal status, completed or failed,
\* also when an external call never answers.
C13_RunTerminates ==
  (currentRun.status = "running") ~> (currentRun.status \in {"completed", "failed"})

\* C14: whenever run() returns, completed or failed, the returned run carries
\* a result with the total spend and the receipts recorded during the run.
C14_ReturnedRunHasReport ==
  returned = "value" =>
    /\ currentRun.result # <<>>
    /\ currentRun.result[1].auditSummary.totalSpentUSD = SumAmountUSD(logger.receipts)
    /\ currentRun.result[1].receipts = logger.receipts

\* C15: a tool priced above policy.maxAutoApproveUSD is never paid for without
\* an explicit approval: its assessment is not approved and no request for it
\* reaches the gateway.
C15_AboveCeilingNotPaid ==
  /\ \A k \in 1..Len(logger.riskAssessments) :
       logger.riskAssessments[k].estimatedCostUSD > riskEngine.policy.maxAutoApproveUSD
         => ~logger.riskAssessments[k].approved
  /\ \A k \in 1..Len(gatewayCalls) :
       FindTool(toolRegistry, gatewayCalls[k].toolId)[1].priceUSD
         <= riskEngine.policy.maxAutoApproveUSD

\* C16: RiskEngine.assess mutates nothing: across an assess call dailySpent,
\* lastActionTimestamp, the action log and the policy are unchanged, and
\* getBudgetStatus() returns the same value before and after.
C16_AssessMutatesNothing ==
  [][ (ret'.op = "assess") =>
        /\ riskEngine' = riskEngine
        /\ getBudgetStatus(riskEngine') = getBudgetStatus(riskEngine) ]_vars

\* an assessment made of an engine that has recorded spend, with a violation
C16_Witness ==
  /\ ret.op = "assess"
  /\ riskEngine.dailySpent > 0
  /\ Len(riskEngine.actionLog) = 2
  /\ ret.value.policyViolations # <<>>

\* C17: two assess calls with the same policy, dailySpent, lastActionTimestamp,
\* estimated cost and metadata return identical assessments, whatever the
\* moment of each call (between the two calls only time passes).
C17_AssessIgnoresTime ==
  [][ ( /\ ret.op = "assess" /\ ret'.op = "assess"
        /\ ret'.args = ret.args
        /\ riskEngine' = riskEngine )
      => ret'.value = ret.value ]_vars

\* a call of recordAction: the only operation that appends to the action log
RecordActionStep == Len(riskEngine'.actionLog) = Len(riskEngine.actionLog) + 1

\* C18: recordAction with approved = false leaves dailySpent and
\* lastActionTimestamp unchanged; with approved = true it adds exactly cost to
\* dailySpent and sets lastActionTimestamp to the current time; apart from
\* recordAction only resetDaily changes dailySpent.
C18_RecordActionFrame ==
  [][ /\ RecordActionStep =>
           LET cost == ret'.args[1]
               approved == ret'.args[2]
           IN /\ ret'.op = "recordAction"
              /\ approved =>
                   /\ riskEngine'.dailySpent = riskEngine.dailySpent + cost
                   /\ riskEngine'.lastActionTimestamp = now
              /\ ~approved =>
                   /\ riskEngine'.dailySpent = riskEngine.dailySpent
                   /\ riskEngine'.lastActionTimestamp = riskEngine.lastActionTimestamp
              /\ riskEngine'.policy = riskEngine.policy
      /\ (riskEngine'.dailySpent # riskEngine.dailySpent /\ ~RecordActionStep) =>
           ret'.op = "resetDaily" /\ riskEngine'.dailySpent = 0
      /\ (riskEngine'.lastActionTimestamp # riskEngine.lastActionTimestamp) =>
           RecordActionStep ]_vars

\* an engine that recorded an approved and a declined action, at different times
C18_Witness ==
  /\ ret.op = "recordAction"
  /\ Len(riskEngine.actionLog) = 2
  /\ riskEngine.actionLog[1].approved /\ ~riskEngine.actionLog[2].approved
  /\ riskEngine.dailySpent = riskEngine.actionLog[1].costUSD
  /\ riskEngine.lastActionTimestamp = riskEngine.actionLog[1].timestamp
  /\ riskEngine.actionLog[2].timestamp > riskEngine.actionLog[1].timestamp

IsPrefix(a, b) == Len(a) <= Len(b) /\ SubSeq(b, 1, Len(a)) = a

\* C19: the AuditLogger is append-only: across every log, logPayment,
\* logRiskAssessment, logMandate and logWorkflowStep call the entries, the
\* receipts and the assessments already stored stay at their positions with
\* their content, and no list gets shorter.
C19_AppendOnly ==
  [][ /\ IsPrefix(logger.entries, logger'.entries)
      /\ IsPrefix(logger.receipts, logger'.receipts)
      /\ IsPrefix(logger.riskAssessments, logger'.riskAssessments) ]_vars

\* a ledger with three entries, among them a receipt and an assessment
C19_Witness ==
  /\ Len(logger.entries) = 3
  /\ Len(logger.receipts) = 1
  /\ Len(logger.riskAssessments) = 1

RECURSIVE SumValues(_)
SumValues(f) ==
  IF DOMAIN f = {} THEN 0
  ELSE LET k == CHOOSE x \in DOMAIN f : TRUE
       IN  f[k] + SumValues([x \in DOMAIN f \ {k} |-> f[x]])

\* C20: getFullReport() returns aggregates of the receipts the ledger holds
\* when it is called: totalPayments is their number, totalSpentUSD the sum of
\* their amounts, and the values of spendByTool and of spendByProtocol each sum
\* to totalSpentUSD, also right after a further logPayment.
C20_ReportRecomputed ==
  ret.op = "getFullReport" =>
    LET summary == ret.value.summary
    IN /\ summary.totalPayments = Len(logger.receipts)
       /\ summary.totalSpentUSD = SumAmountUSD(logger.receipts)
       /\ SumValues(summary.spendByTool) = summary.totalSpentUSD
       /\ SumValues(summary.spendByProtocol) = summary.totalSpentUSD
       /\ DOMAIN summary.spendByTool = {logger.receipts[k].tool : k \in 1..Len(logger.receipts)}
       /\ DOMAIN summary.spendByProtocol
            = {logger.receipts[k].protocol : k \in 1..Len(logger.receipts)}
       /\ ret.value.receipts = logger.receipts

\* a report of two receipts of one tool paid over two protocols
C20_Witness ==
  /\ ret.op = "getFullReport"
  /\ Len(logger.receipts) = 2
  /\ ret.value.summary.totalSpentUSD = 60
  /\ Cardinality(DOMAIN ret.value.summary.spendByTool) = 1
  /\ Cardinality(DOMAIN ret.value.summary.spendByProtocol) = 2

Sentiment == ret.op = "fetchSentiment"

TotalWeight(signals) == Weigh(signals, [weightedSum |-> 0, totalWeight |-> 0]).totalWeight

\* C21: the aggregation of an empty signal list gives score 0, confidence 0
\* and label neutral; whenever the total weight is 0 the score and the
\* confidence are 0, and no result holds the value of a division by zero.
C21_EmptyAggregation ==
  Sentiment =>
    LET r == ret.value
    IN /\ r.overall.score # NaN /\ r.overall.confidence # NaN
       /\ r.signals = <<>> => r.overall = [score |-> 0, label |-> "neutral", confidence |-> 0]
       /\ TotalWeight(r.signals) = 0 =>
            r.overall.score = 0 /\ r.overall.confidence = 0 /\ r.overall.label = "neutral"

\* a request whose only source produced nothing
C21_Witness ==
  /\ Sentiment
  /\ ret.args[2] = "miss"
  /\ ret.value.signals = <<>>

\* the bijections of 1..n
Bijections(n) == {f \in [1..n -> 1..n] : \A a, b \in 1..n : a # b => f[a] # f[b]}

\* C22: the composite score, confidence and label are the same for every
\* permutation of the list of signals.
C22_OrderInvariant ==
  Sentiment =>
    \A f \in Bijections(Len(ret.value.signals)) :
       aggregate([k \in 1..Len(ret.value.signals) |-> ret.value.signals[f[k]]])
         = ret.value.overall

\* three signals of different scores with a composite that is not neutral
C22_Witness ==
  /\ Sentiment
  /\ Len(ret.value.signals) = 3
  /\ ret.value.signals[1].score # ret.value.signals[2].score
  /\ ret.value.signals[2].score # ret.value.signals[3].score
  /\ ret.value.overall.label = "bullish"

\* the sources of a request that produced data
Produced(args) ==
  (IF Len(args[3]) > 0 THEN 1 ELSE 0) + (IF args[4] # <<>> THEN 1 ELSE 0)
  + (IF args[5] # <<>> /\ args[5][1].label # "unavailable" THEN 1 ELSE 0)

\* C23: a source whose fetch failed contributes no entry to the signal list:
\* the list holds one entry per source that produced data, and live is true
\* only if at least one source produced data.
C23_FailedSourceOmitted ==
  (Sentiment /\ ret.args[2] = "miss") =>
    /\ Len(ret.value.signals) = Produced(ret.args)
    /\ ret.value.live <=> Produced(ret.args) > 0

\* C24: in a run whose planned tools are all in the catalog, in an allowed
\* category and within the limits, and whose gateway calls all succeed, every
\* risk assessment is approved: none reports a violation, in particular not
\* an unmet cooldown.
C24_NoCooldownRejection ==
  ( /\ \A k \in 1..Len(currentRun.steps) :
          ~(currentRun.steps[k].type = "execute" /\ currentRun.steps[k].status = "failed")
    /\ \A k \in 1..Len(logger.riskAssessments) :
          \A v \in 1..Len(logger.riskAssessments[k].policyViolations) :
             logger.riskAssessments[k].policyViolations[v] = "Cooldown not met" )
  => \A k \in 1..Len(logger.riskAssessments) : logger.riskAssessments[k].approved

\* C25: when Authorize obtained an authorized mandate, the amount paid by
\* the run never exceeds the mandate's maximum value.
C25_PaidWithinMandate ==
  mandate # <<>> => SumSettledUSD(logger.receipts) <= mandate[1].maxValue

Assessed == ret.op = "assess"

Violates(assessment, v) ==
  \E k \in 1..Len(assessment.policyViolations) : assessment.policyViolations[k] = v

\* C26: an assessment with dailySpent + estimatedCost > dailyLimitUSD has tier
\* critical, also when a per-transaction or an allowlist violation occurs in
\* the same assessment.
C26_DailyLimitIsCritical ==
  (Assessed /\ Violates(ret.value, "Daily limit exceeded")) => ret.value.riskLevel = "critical"

\* C27: the approved flag of an assessment is true iff its violation list is
\* empty, and the reason names the branch: Blocked iff there is a violation,
\* Auto-approved iff there is none and the cost is within maxAutoApproveUSD,
\* Requires approval iff there is none and the cost is above it.
C27_ApprovedIffNoViolation ==
  Assessed =>
    LET a == ret.value
        none == a.policyViolations = <<>>
        within == a.estimatedCostUSD <= riskEngine.policy.maxAutoApproveUSD
    IN /\ a.approved <=> none
       /\ a.reason = "Blocked" <=> ~none
       /\ a.reason = "Auto-approved" <=> (none /\ within)
       /\ a.reason = "Requires approval" <=> (none /\ ~within)

\* an assessment without violation of a cost above the auto-approve ceiling
C27_Witness ==
  /\ Assessed
  /\ ret.value.reason = "Requires approval"
  /\ riskEngine.dailySpent > 0

\* the violations that leave the tier alone
OnlyCooldown(assessment) ==
  \A k \in 1..Len(assessment.policyViolations) :
     assessment.policyViolations[k] = "Cooldown not met"

\* C28: when no check raised the tier above low (no violation, or only a
\* cooldown violation) the tier follows from the cost alone: high above
\* requireApprovalAboveUSD, else medium above maxAutoApproveUSD, else low; a
\* slippage violation alone yields medium.
C28_TierFromCost ==
  Assessed =>
    LET a == ret.value
        p == riskEngine.policy
    IN /\ OnlyCooldown(a) =>
            a.riskLevel = IF a.estimatedCostUSD > p.requireApprovalAboveUSD THEN "high"
                          ELSE IF a.estimatedCostUSD > p.maxAutoApproveUSD THEN "medium"
                          ELSE "low"
       /\ a.policyViolations = << "Slippage too high" >> => a.riskLevel = "medium"

\* an assessment in cooldown, of a cost above the approval threshold
C28_Witness ==
  /\ Assessed
  /\ ret.value.policyViolations = << "Cooldown not met" >>
  /\ ret.value.riskLevel = "high"

\* less than cooldownMs has passed since the last approved action was recorded
CoolingDown ==
  /\ riskEngine.lastActionTimestamp > 0
  /\ now - riskEngine.lastActionTimestamp < riskEngine.policy.cooldownMs

\* every assessment made now reports a cooldown violation iff the engine is
\* cooling down, and is then not approved
C29_Inv ==
  \A cost \in ActionCosts, metadata \in Metadatas :
       LET a == assess(riskEngine, now, "action", cost, metadata)
       IN /\ Violates(a, "Cooldown not met") <=> CoolingDown
          /\ CoolingDown => ~a.approved

\* the time the cooldown counts from is that of the last recordAction with
\* approved = true: only such a call moves it, to the current time
C29_Step ==
  /\ (RecordActionStep /\ ret'.args[2]) => riskEngine'.lastActionTimestamp = now
  /\ (RecordActionStep /\ ~ret'.args[2]) =>
       riskEngine'.lastActionTimestamp = riskEngine.lastActionTimestamp
  /\ ~RecordActionStep => riskEngine'.lastActionTimestamp = riskEngine.lastActionTimestamp
  /\ (riskEngine.lastActionTimestamp = 0 /\ ret'.op = "assess") =>
       ~Violates(ret'.value, "Cooldown not met")

\* C29: assess reports a cooldown violation, and approved = false, exactly
\* when an approved recordAction exists and less than cooldownMs has passed
\* since the last one; before any approved action it never does, and a
\* recordAction with approved = false does not restart the cooldown.
C29_CooldownFromLastApproved == [](C29_Inv) /\ [][C29_Step]_vars

\* an assessment in cooldown after an approved and then a declined action
C29_Witness ==
  /\ Assessed
  /\ Violates(ret.value, "Cooldown not met")
  /\ Len(riskEngine.actionLog) = 2
  /\ riskEngine.actionLog[1].approved /\ ~riskEngine.actionLog[2].approved
  /\ riskEngine.actionLog[2].timestamp > riskEngine.actionLog[1].timestamp

\* C30: for every assess call, approved or not, budgetImpact.before is
\* dailySpent at the time of the call and budgetImpact.after is before plus
\* the estimated cost; getBudgetStatus() always has spent + remaining =
\* dailyLimit.
C30_BudgetSnapshot ==
  /\ Assessed =>
       /\ ret.value.budgetImpact.before = riskEngine.dailySpent
       /\ ret.value.budgetImpact.after = ret.value.budgetImpact.before + ret.args[1]
       /\ ret.value.estimatedCostUSD = ret.args[1]
  /\ ret.op = "getBudgetStatus" =>
       /\ ret.value.spent = riskEngine.dailySpent
       /\ ret.value.dailyLimit = riskEngine.policy.dailyLimitUSD
       /\ ret.value.spent + ret.value.remaining = ret.value.dailyLimit
  /\ getBudgetStatus(riskEngine).spent + getBudgetStatus(riskEngine).remaining
       = riskEngine.policy.dailyLimitUSD

\* a rejected assessment of an engine that has spent, and a budget status
\* of an engine that spent more than its limit
C30_Witness ==
  \/ /\ Assessed
     /\ ~ret.value.approved
     /\ ret.value.budgetImpact.before > 0
     /\ ret.value.budgetImpact.after > riskEngine.policy.dailyLimitUSD
  \/ /\ ret.op = "getBudgetStatus"
     /\ ret.value.remaining < 0

\* C31: whenever run() returns, completed or failed, the returned RunState has
\* budgetRemainingUSD = budgetUSD - totalCostUSD.
C31_RemainingIsBudgetLessCost ==
  returned = "value" =>
    currentRun.budgetRemainingUSD = currentRun.budgetUSD - currentRun.totalCostUSD

\* the estimated total cost that phasePlan computes for the plan (lines 427-429)
PlanEstimatedCost ==
  IF plan.estimatedCostUSD # 0 THEN plan.estimatedCostUSD
  ELSE estimateWorkflowCost(toolRegistry, plan.plan)

\* C35: the mandate requested in the Authorize phase has maxValueUSD equal to
\* 1.5 times the estimated total cost that the Plan phase computed: the plan's
\* estimatedCostUSD when present, otherwise the sum of the catalog prices of the
\* planned tools.
C35_EnvelopeIsEstimateTimesOneAndAHalf ==
  \A k \in 1..Len(logger.mandates) :
    logger.mandates[k].hasCart => 2 * logger.mandates[k].maxValue = 3 * PlanEstimatedCost

\* the scores of the signals that have a non-zero confidence
WeighedScores(signals) ==
  { signals[k].score : k \in {j \in 1..Len(signals) : signals[j].confidence # 0} }

\* C34: in every result of fetchSentiment the reported overall.label agrees
\* with the reported overall.score (bullish exactly when the score is above
\* 0.25, bearish exactly when it is below -0.25, neutral otherwise), and the
\* score lies between the smallest and the largest score of the signals that
\* have a non-zero confidence.
C34_LabelAgreesWithScore ==
  Sentiment =>
    LET overall == ret.value.overall
        scores == WeighedScores(ret.value.signals)
    IN /\ overall.label \in {"bullish", "bearish", "neutral"}
       /\ overall.label = "bullish" <=> overall.score > 250
       /\ overall.label = "bearish" <=> overall.score < -250
       /\ scores # {} =>
            /\ \E lo \in scores : lo <= overall.score
            /\ \E hi \in scores : overall.score <= hi

Reasoned(kind) == ret.op = "fallbackReasoning" /\ ret.value.kind = kind

\* the number the results carry for a tool: that of its entry when the entry
\* succeeded and has data that parses, the default otherwise
Carried(results, tool, default) ==
  LET at == {k \in 1..Len(results) :
               results[k].tool = tool /\ results[k].success /\ results[k].data = "json"}
  IN  IF at = {} THEN default ELSE results[CHOOSE k \in at : TRUE].value

\* C33: the fallback decision is buy iff (sentiment score > 0.15 or 24h change
\* > 2) and largest position <= 60 and price impact < 50, otherwise hold, never
\* sell; its follow-up action is present, with tool trade-execute, exactly when
\* the decision is buy.
C33_FallbackBuysIffBullish ==
  Reasoned("decide") =>
    LET results == ret.args[1].results
        d == ret.value.decision
        bullish == \/ Carried(results, "sentiment", 0) > 150
                   \/ Carried(results, "market-data", 0) > 200
    IN /\ d.decision \in {"buy", "hold"}
       /\ d.decision = "buy" <=>
            /\ bullish
            /\ Carried(results, "portfolio-analytics", 0) <= 600
            /\ Carried(results, "route-optimizer", 0) < 50
       /\ d.action # <<>> <=> d.decision = "buy"
       /\ d.action # <<>> => d.action[1].tool = "trade-execute"

\* a tool id is in the merchant catalog, the default policy allows its
\* category, and executeTool finds it in the discovered registry
InCatalog(toolId) ==
  /\ FindTool(TOOLS, toolId) # <<>>
  /\ FindTool(TOOLS, toolId)[1].category \in DEFAULT_POLICY.allowedCategories
  /\ executeToolAssess(NewLogger, NewRiskEngine(DEFAULT_POLICY), TOOLS, 1, toolId,
                       "x402").outcome # "throw"

\* C40: every tool id the fallback plans or acts on is an id of the merchant
\* catalog with a category the default policy allows, and the estimatedCostUSD
\* of the fallback plan is the sum of the catalog prices of its tools, so that
\* executeTool never answers 'Tool not found' for them.
C40_FallbackToolsInCatalog ==
  /\ Reasoned("plan") =>
       LET p == ret.value.plan
       IN /\ \A k \in 1..Len(p.plan) : InCatalog(p.plan[k])
          /\ p.estimatedCostUSD = estimateWorkflowCost(TOOLS, p.plan)
          /\ p.estimatedCostUSD = 130
  /\ (Reasoned("decide") /\ ret.value.decision.action # <<>>) =>
       InCatalog(ret.value.decision.action[1].tool)

\* the fallback answered the planning prompt with its five tools
C40_Witness ==
  /\ Reasoned("plan")
  /\ Len(ret.value.plan.plan) = 5
  /\ \A k \in 1..5 : FindTool(TOOLS, ret.value.plan.plan[k]) # <<>>

FulfillmentFailed ==
  \E k \in 1..Len(logger.entries) :
    logger.entries[k].level = "warn" /\ logger.entries[k].message = "Mandate fulfillment failed"

\* C37: the agent sends a mandate fulfillment only for a run that reached
\* status completed with an authorized mandate, at most once per run, after the
\* report step, with totalSpent equal to the final totalCostUSD of the run; a
\* failure of the request leaves the run completed and run() returns it.
C37_FulfillmentOfCompletedRun ==
  /\ Len(fulfillments) <= 1
  /\ \A k \in 1..Len(fulfillments) :
       LET f == fulfillments[k]
       IN /\ f.status = "completed"
          /\ mandate # <<>>
          /\ mandate[1].status = "authorized"
          /\ f.mandateId = mandate[1].mandateId
          /\ f.steps # <<>> /\ Last(f.steps).id = "report"
          /\ f.steps = currentRun.steps
          /\ f.totalSpent = currentRun.totalCostUSD
          /\ f.totalSpent = SumAmountUSD(f.receipts)
          /\ returned = "value"
          /\ currentRun.status = "completed"
  /\ FulfillmentFailed => (fulfillments # <<>> /\ pc = "done")
  /\ (pc = "done" /\ returned = "value" /\ currentRun.status = "completed" /\ mandate # <<>>)
       => Len(fulfillments) = 1

\* a fulfillment request for a run that paid failed, and run() returned the
\* completed run
C37_Witness ==
  /\ fulfillments # <<>>
  /\ FulfillmentFailed
  /\ fulfillments[1].totalSpent > 0
  /\ returned = "value"
  /\ currentRun.status = "completed"

FirstInvocationReached ==
  /\ riskEngine = FirstInvocation.riskEngine
  /\ logger = FirstInvocation.logger
  /\ toolRegistry = TOOLS
  /\ wallet = "ready"
  /\ currentRun = FirstInvocation.currentRun
  /\ plan = FirstInvocation.plan
  /\ mandate = FirstInvocation.mandate
  /\ decision = FirstInvocation.decision
  /\ i = 1
  /\ call = NoCall
  /\ gatewayCalls = FirstInvocation.gatewayCalls
  /\ pc = "report"
  /\ now = 1
  /\ returned = "none"

\* the invocation of run() that is followed: 1 is the first, 2 the second
Followed == 3 - other.inv

\* the second invocation was called after the first one returned
Sequential == firstRun.status \in {"completed", "failed"}

\* the second invocation was called while the first one was awaiting
Overlapping == firstRun.status = "running"

\* the receipts recorded after those of the first invocation
SecondRunReceipts ==
  SubSeq(logger.receipts, Len(FirstInvocation.logger.receipts) + 1, Len(logger.receipts))

\* C38: when run() is called again after the first invocation returned, the
\* totalCostUSD and the result.receipts of the second RunState count only the
\* receipts of the second run, and the first RunState is not changed by the
\* second run.
C38_SecondRunCountsItsOwnReceipts ==
  /\ [](  (Sequential /\ Followed = 2 /\ pc = "done" /\ returned = "value"
             /\ currentRun.status = "completed")
        => /\ currentRun.totalCostUSD = SumAmountUSD(SecondRunReceipts)
           /\ currentRun.result[1].receipts = SecondRunReceipts )
  /\ [][Sequential => firstRun' = firstRun]_vars

\* C39: when two invocations of run() overlap, an invocation that returns a
\* RunState returns one that holds its own steps, first of them the discover
\* step, and whose status it has set; the RunState the first invocation
\* created does not stay 'running' once the first invocation has returned.
C39_OverlappingRunsKeepTheirOwnState ==
  /\ (Overlapping /\ pc = "done" /\ returned = "value")
       => /\ currentRun.status \in {"completed", "failed"}
          /\ currentRun.steps # <<>> => currentRun.steps[1].id = "discover"
  /\ (Overlapping /\ (  (Followed = 1 /\ pc = "done")
                      \/ (Followed = 2 /\ other.pc = "done")))
       => firstRun.status \in {"completed", "failed"}

\* C32: the status of a RunState changes from 'running' to 'completed' or to
\* 'failed' and to nothing else, and once it is 'completed' or 'failed' no
\* attribute of that RunState changes again (run() called from idle creates a
\* new RunState).
C32_RunStateIsFinalOnceStatusLeavesRunning ==
  [][ /\ (pc # "idle" /\ currentRun.status \in {"completed", "failed"})
         => currentRun' = currentRun
      /\ (pc # "idle" /\ currentRun.status = "running")
         => \/ currentRun'.status = "running"
            \/ /\ currentRun'.status \in {"completed", "failed"}
               /\ currentRun'.completedAt = now'
      /\ firstRun.status \in {"completed", "failed"} => firstRun' = firstRun ]_vars

\* how far a mandate has come
Rank(status) == CASE status = "pending" -> 0 [] status = "authorized" -> 1 [] OTHER -> 2

\* C36: a mandate on the merchant server only moves forward, from pending to
\* authorized to fulfilled: no request moves it back, it becomes fulfilled only
\* from authorized, a fulfill request on a mandate that is not authorized
\* answers 400 and changes nothing, and a fulfilled mandate is not fulfilled
\* again.
C36_MandateOnlyMovesForward ==
  [][ /\ \A id \in DOMAIN mandates :
           /\ id \in DOMAIN mandates'
           /\ Rank(mandates[id].status) <= Rank(mandates'[id].status)
           /\ (mandates'[id].status = "fulfilled" /\ mandates[id].status # "fulfilled")
                => mandates[id].status = "authorized"
      /\ (ret'.op = "postFulfill" /\ ret'.args[1] \in DOMAIN mandates) =>
           IF mandates[ret'.args[1]].status = "authorized"
           THEN ret'.value[1].code = 200
           ELSE ret'.value[1].code = 400 /\ mandates' = mandates ]_vars
====
